---- MODULE Spec2Model ----
(***************************************************************************)
(* Model of the dynamecs-analyze timing core: Record::create_span_path,    *)
(* TimingAccumulator, and the run/step scanning of extract_step_timings     *)
(* (src/dynamecs-analyze/src/timing.rs, src/dynamecs-analyze/src/lib.rs).   *)
(***************************************************************************)
EXTENDS Integers, Sequences, FiniteSets, TLC

(***************************************************************************)
(* Bounds of the model.                                                    *)
(***************************************************************************)
\* number of records the record iterator yields at most
MaxRecords == 5
\* the timestamp of a span record is 0 or MaxTs
MaxTs == 1
\* step_index fields of step spans are drawn from 0..MaxIndex
MaxIndex == 1
\* number of enter/exit calls made on the stand-alone accumulator
MaxOps == 4
\* number of steps of a series that is summarized, at most
MaxSteps == 2
\* number of paths given to the constructor of a SpanTree, at most
MaxTreeLen == 5
MaxKeys == 3
MaxVersion == 4
MaxCalls == 4

(***************************************************************************)
(* Records (lib.rs: Record, Span, RecordKind).                             *)
(***************************************************************************)
SpanEnter == "SpanEnter"
SpanExit == "SpanExit"
Event == "Event"
RecordKind == {SpanEnter, SpanExit, Event}

\* The target under which dynamecs_app emits its run and step spans.
DynamecsTarget == "dynamecs_app"
Targets == {DynamecsTarget, "other"}
ThreadIds == {"ThreadId(0)", "ThreadId(1)"}
SpanNames == {"run", "step", "a"}

\* Option::None of the step_index lookup (absent, or not an unsigned number).
NoIndex == -1

\* Record::span() == None
NoSpan == [present |-> FALSE, name |-> "", step_index |-> NoIndex]
Span(name, idx) == [present |-> TRUE, name |-> name, step_index |-> idx]

\* A record as the tracing JSON layer writes it: the `spans` list of an enter
\* or event record ends with the record's own span, the one of an exit
\* record does not include the span being exited.
MakeRecord(kind, span, ancestors, target, thread, ts) ==
    [kind |-> kind,
     span |-> span,
     spans |-> IF kind = SpanExit \/ ~span.present
                 THEN ancestors ELSE Append(ancestors, span.name),
     target |-> target,
     thread_id |-> thread,
     timestamp |-> ts]

\* The spans of the model: a name, the span stack (names of the enclosing
\* spans) it is entered under, and the target of its records.  They give the
\* paths run, run>run, run>step, run>a and run>step>a.
SpanSites ==
    {[name |-> "run", ancestors |-> << >>, target |-> t] : t \in Targets}
    \cup {[name |-> "step", ancestors |-> <<"run">>, target |-> t] : t \in Targets}
    \cup {[name |-> "run", ancestors |-> <<"run">>, target |-> DynamecsTarget],
          [name |-> "a", ancestors |-> <<"run">>, target |-> "other"],
          [name |-> "a", ancestors |-> <<"run", "step">>, target |-> "other"]}

\* The spans a second thread emits records of.
OtherThreadSites ==
    {[name |-> "run", ancestors |-> << >>, target |-> DynamecsTarget],
     [name |-> "step", ancestors |-> <<"run">>, target |-> DynamecsTarget],
     [name |-> "a", ancestors |-> <<"run", "step">>, target |-> "other"]}

IndexChoices(kind, site) ==
    IF kind = SpanEnter /\ site.name = "step" /\ site.target = DynamecsTarget
      THEN {NoIndex} \cup (0..MaxIndex)
      ELSE {NoIndex}

\* Span enter and exit records of the sites, on a thread, with timestamps.
SpanRecords(sites, thread, timestamps) ==
    UNION { UNION {
        { MakeRecord(kind, Span(site.name, idx), site.ancestors, site.target, thread, ts)
            : idx \in IndexChoices(kind, site), ts \in timestamps }
        : site \in sites } : kind \in {SpanEnter, SpanExit} }

Records ==
    SpanRecords(SpanSites, "ThreadId(0)", {0, MaxTs})
    \cup SpanRecords(OtherThreadSites, "ThreadId(1)", {0})
    \cup { MakeRecord(Event, Span("a", NoIndex), <<"run">>, "other", "ThreadId(0)", 0) }
    \cup { MakeRecord(kind, NoSpan, << >>, "other", "ThreadId(0)", 0) : kind \in RecordKind }

\* Placeholder for "no record read yet" / "the iterator returned None".
NoRecord == [kind |-> "None", span |-> NoSpan, spans |-> << >>, target |-> "",
             thread_id |-> "", timestamp |-> 0]

(***************************************************************************)
(* Record::create_span_path (lib.rs).                                      *)
(***************************************************************************)
\* The span list of the record, whatever its kind: the span being exited is
\* not appended.
create_span_path_of_spans_only(record) ==
    [ok |-> record.kind # SpanExit \/ record.span.present, path |-> record.spans]

create_span_path(record) ==
    LET span_names == record.spans
    IN  IF record.kind = SpanExit
          THEN IF record.span.present
                 THEN [ok |-> TRUE, path |-> Append(span_names, record.span.name)]
                 ELSE [ok |-> FALSE, path |-> span_names]
          ELSE [ok |-> TRUE, path |-> span_names]

(***************************************************************************)
(* DirectStats and TimingAccumulator (timing.rs).                          *)
(***************************************************************************)
EmptyMap == << >>

\* A completed span recorded with its duration but not counted.
from_single_duration_uncounted(duration) == [duration |-> duration, count |-> 0]

from_single_duration(duration) == [duration |-> duration, count |-> 1]

DefaultStats == [duration |-> 0, count |-> 0]

\* The other statistics replace the current ones instead of being added.
combine_mut_replace(self, other) ==
    [duration |-> other.duration, count |-> other.count]

combine_mut(self, other) ==
    [duration |-> self.duration + other.duration, count |-> self.count + other.count]

\* A negative difference clamped to zero instead of made positive.
span_duration_clamped(timestamp_close, timestamp_enter) ==
    IF timestamp_close >= timestamp_enter THEN timestamp_close - timestamp_enter ELSE 0

\* (timestamp_close - timestamp_enter).unsigned_abs()
span_duration(timestamp_close, timestamp_enter) ==
    IF timestamp_close >= timestamp_enter
      THEN timestamp_close - timestamp_enter
      ELSE timestamp_enter - timestamp_close

NewAccumulator == [completed_statistics |-> EmptyMap, enter_timestamps |-> EmptyMap]

\* Remove a key from a map.
MapRemove(map, key) == [k \in (DOMAIN map) \ {key} |-> map[k]]

\* map.entry(key).or_default()
EntryOrDefault(map, key) == IF key \in DOMAIN map THEN map[key] ELSE DefaultStats

\* An enter that stacks: the new timestamp replaces the one of the open span.
enter_span_overwrite(self, path, timestamp) ==
    [ok |-> TRUE, error |-> "",
     acc |-> [self EXCEPT !.enter_timestamps =
                (path :> timestamp) @@ [k \in (DOMAIN @) \ {path} |-> @[k]]]]

enter_span(self, path, timestamp) ==
    IF path \in DOMAIN self.enter_timestamps
      THEN [ok |-> FALSE, error |-> "SpanAlreadyActive", acc |-> self]
      ELSE [ok |-> TRUE, error |-> "",
            acc |-> [self EXCEPT !.enter_timestamps = (path :> timestamp) @@ @]]

\* An exit that lets the exit of a span that is not open pass.
exit_span_lenient(self, path, timestamp_close) ==
    IF path \notin DOMAIN self.enter_timestamps
      THEN [ok |-> TRUE, error |-> "", acc |-> self]
      ELSE LET timestamp_enter == self.enter_timestamps[path]
               duration == span_duration(timestamp_close, timestamp_enter)
               accumulated_stats == EntryOrDefault(self.completed_statistics, path)
           IN  [ok |-> TRUE, error |-> "",
                acc |-> [enter_timestamps |-> MapRemove(self.enter_timestamps, path),
                         completed_statistics |->
                            (path :> combine_mut(accumulated_stats, from_single_duration(duration)))
                            @@ self.completed_statistics]]

exit_span(self, path, timestamp_close) ==
    IF path \notin DOMAIN self.enter_timestamps
      THEN [ok |-> FALSE, error |-> "SpanNotActive", acc |-> self]
      ELSE LET timestamp_enter == self.enter_timestamps[path]
               duration == span_duration(timestamp_close, timestamp_enter)
               accumulated_stats == EntryOrDefault(self.completed_statistics, path)
           IN  [ok |-> TRUE, error |-> "",
                acc |-> [enter_timestamps |-> MapRemove(self.enter_timestamps, path),
                         completed_statistics |->
                            (path :> combine_mut(accumulated_stats, from_single_duration(duration)))
                            @@ self.completed_statistics]]

has_active_spans(self) == DOMAIN self.enter_timestamps # {}

collect_completed_statistics(self) == self.completed_statistics


(***************************************************************************)
(* State of extract_step_timings (timing.rs): the position of the scan, the *)
(* record iterator, and the locals of find_and_visit_dynamecs_run_span,     *)
(* visit_dynamecs_run_span and visit_dynamecs_step_span.                    *)
(***************************************************************************)
VARIABLES
    pc,                      \* "SeekingRun", "InRun", "InStep" or "Done"
    rec,                     \* the record last taken from the iterator
    nread,                   \* number of records taken from the iterator
    run_new_record,          \* visit_dynamecs_run_span: run_new_record
    intransient_accumulator, \* visit_dynamecs_run_span: intransient_accumulator
    steps,                   \* visit_dynamecs_run_span: steps
    step_new_record,         \* visit_dynamecs_step_span: step_new_record
    step_path,               \* visit_dynamecs_step_span: step_path
    step_index,              \* visit_dynamecs_step_span: step_index
    accumulator,             \* visit_dynamecs_step_span: accumulator
    result,                  \* the eyre::Result returned by extract_step_timings
    h_first_run              \* history: first record of the stream that is a run enter

(***************************************************************************)
(* State of a stand-alone TimingAccumulator driven by enter/exit calls.    *)
(***************************************************************************)
VARIABLES
    acc,                     \* the TimingAccumulator
    acc_call,                \* the last call made on it
    acc_result,              \* what that call returned
    acc_history              \* every call made so far, in order

(***************************************************************************)
(* State of a stand-alone AccumulatedTimingSeries that is summarized.      *)
(***************************************************************************)
VARIABLES
    series,                  \* the AccumulatedTimingSeries (self of summarize)
    summary                  \* the AccumulatedTimings returned by summarize

(***************************************************************************)
(* State of a stand-alone SpanTree: the arguments of the constructor, what *)
(* it returned, and the last operation made on the tree and its nodes.     *)
(***************************************************************************)
VARIABLES
    tree_paths,              \* try_from_depth_first_ordering: paths
    tree_payloads,           \* try_from_depth_first_ordering: payloads
    tree_result,             \* the Result returned by the constructor
    node_call,               \* the last operation called on the tree or a node
    node_result              \* what that operation returned

(***************************************************************************)
(* State of stand-alone SpanPath operations: the paths they are called     *)
(* with, the last operation and what it returned.                          *)
(***************************************************************************)
VARIABLES
    path_self,               \* self of the operation
    path_other,              \* its argument
    path_third,              \* one more path
    path_call,               \* the last operation called
    path_result              \* what that operation returned

(***************************************************************************)
(* State of a stand-alone AccumulatedTimings::create_timing_tree.          *)
(***************************************************************************)
VARIABLES
    span_stats,              \* AccumulatedTimings: span_stats (self)
    timing_tree              \* the TimingTree returned, or the panic

(***************************************************************************)
(* State of a stand-alone VersionedVecStorage.                             *)
(***************************************************************************)
VARIABLES
    storage,                 \* VersionedVecStorage: storage (the VecStorage)
    versions,                \* VersionedVecStorage: versions
    storage_version,         \* VersionedVecStorage: storage_version
    storage_call             \* the last call made on the storage

(***************************************************************************)
(* State of stand-alone parts of dynamecs and dynamecs-app: a              *)
(* SingleShotSystem, a VersionedEntityCache, the EntityFactory of a        *)
(* Universe, a DynamecsApp that is run, and the table that                 *)
(* format_timing_tree writes.                                              *)
(***************************************************************************)
VARIABLES
    single_shot,             \* the SingleShotSystem and what its wrapped system did
    cache,                   \* the VersionedEntityCache and the last call made on it
    entity_factory,          \* the EntityFactory of a Universe, the entities handed out,
                             \* its serialized form and the factory restored from it
    app,                     \* the DynamecsApp, its scenario state and its run
    table                    \* format_timing_tree: the rows written and the stack

xvars == <<pc, rec, nread, run_new_record, intransient_accumulator, steps,
           step_new_record, step_path, step_index, accumulator, result, h_first_run>>
avars == <<acc, acc_call, acc_result, acc_history>>
svars == <<series, summary>>
tvars == <<tree_paths, tree_payloads, tree_result, node_call, node_result>>
pvars == <<path_self, path_other, path_third, path_call, path_result>>
cvars == <<span_stats, timing_tree>>
vvars == <<storage, versions, storage_version, storage_call>>
dvars == <<single_shot, cache, entity_factory, app, table>>
vars == <<pc, rec, nread, run_new_record, intransient_accumulator, steps,
          step_new_record, step_path, step_index, accumulator, result, h_first_run,
          acc, acc_call, acc_result, acc_history,
          series, summary,
          tree_paths, tree_payloads, tree_result, node_call, node_result,
          path_self, path_other, path_third, path_call, path_result,
          span_stats, timing_tree,
          storage, versions, storage_version, storage_call,
          single_shot, cache, entity_factory, app, table>>

NoResult == [status |-> "none", error |-> "", steps |-> << >>, intransient_timings |-> EmptyMap]
Err(error) == [status |-> "err", error |-> error, steps |-> << >>, intransient_timings |-> EmptyMap]
\* Ok(AccumulatedTimingSeries { steps, intransient_timings })
OkSeries(the_steps, the_accumulator) ==
    [status |-> "ok", error |-> "", steps |-> the_steps,
     intransient_timings |-> collect_completed_statistics(the_accumulator)]

NoCall == [op |-> "none", path |-> << >>, timestamp |-> 0]
NoCallResult == [ok |-> TRUE, error |-> ""]

\* No series, and nothing summarized.
NoSeries == [steps |-> << >>, intransient_timings |-> EmptyMap]
NoSummary == [some |-> FALSE, timings |-> EmptyMap]

\* No tree built, and no operation made.
NoTree == [tree_depth_first |-> << >>, payloads |-> << >>]
NoTreeResult == [status |-> "none", error |-> "", tree |-> NoTree]
NoNodeCall == [op |-> "none", index |-> 0, search |-> ""]
NoNodeResult == [some |-> FALSE, index |-> 0, nodes |-> << >>, count |-> 0, tree |-> NoTree]

\* extract_step_timings before its first record
InitExtract ==
    /\ pc = "SeekingRun"
    /\ rec = NoRecord
    /\ nread = 0
    /\ run_new_record = NoRecord
    /\ intransient_accumulator = NewAccumulator
    /\ steps = << >>
    /\ step_new_record = NoRecord
    /\ step_path = << >>
    /\ step_index = NoIndex
    /\ accumulator = NewAccumulator
    /\ result = NoResult
    /\ h_first_run = NoRecord

\* TimingAccumulator::new()
InitAccumulator ==
    /\ acc = NewAccumulator
    /\ acc_call = NoCall
    /\ acc_result = NoCallResult
    /\ acc_history = << >>

\* No series is being summarized.
IdleSeries ==
    /\ series = NoSeries
    /\ summary = NoSummary

\* No tree is being built.
IdleTree ==
    /\ tree_paths = << >>
    /\ tree_payloads = << >>
    /\ tree_result = NoTreeResult
    /\ node_call = NoNodeCall
    /\ node_result = NoNodeResult

\* No operation of SpanPath is being made.
NoPathResult == [some |-> FALSE, flag |-> FALSE, path |-> << >>]
IdlePath ==
    /\ path_self = << >>
    /\ path_other = << >>
    /\ path_third = << >>
    /\ path_call = [op |-> "none"]
    /\ path_result = NoPathResult

\* No timing tree is being created.
IdleTimingTree ==
    /\ span_stats = EmptyMap
    /\ timing_tree = [status |-> "none", tree |-> NoTree]

\* VecStorage::new() and VersionedVecStorage::default()
IdleStorage ==
    /\ storage = [components |-> << >>, entities |-> << >>, lookup_table |-> << >>]
    /\ versions = << >>
    /\ storage_version = 0
    /\ storage_call = [op |-> "none", entity |-> "", returned |-> FALSE]

\* SingleShotSystem::new, VersionedEntityCache::default and
\* EntityFactory::default; no app is run and no table is written.
IdleDynamecs ==
    /\ single_shot = [has_run |-> FALSE, system_runs |-> 0, calls |-> << >>]
    /\ cache = [map |-> EmptyMap,
                 call |-> [op |-> "none", entity |-> "", version |-> 0, called |-> FALSE,
                           passed |-> [some |-> FALSE, version |-> 0, value |-> ""],
                           value |-> "", returned |-> "none"]]
    /\ entity_factory = [next_entity |-> 0, handed_out |-> << >>,
                          json |-> [some |-> FALSE, text |-> << >>, handed_out |-> 0],
                          restored |-> [some |-> FALSE, next_entity |-> 0,
                                        handed_out |-> << >>, from |-> 0]]
    /\ app = [pc |-> "none", scenario |-> FALSE, max_steps |-> [some |-> FALSE, value |-> 0],
               duration |-> [some |-> FALSE, value |-> 0], write_checkpoints |-> FALSE,
               step_index |-> 0, sim_time |-> 0, iteration |-> 0, read_step_index |-> 0,
               trace |-> << >>, result |-> "none"]
    /\ table = [written |-> FALSE, rows |-> << >>, active_stack |-> << >>]

Init ==
    /\ InitExtract /\ InitAccumulator /\ IdleSeries /\ IdleTree
    /\ IdlePath /\ IdleTimingTree /\ IdleStorage /\ IdleDynamecs

(***************************************************************************)
(* The conditions of the scanning loops.                                   *)
(***************************************************************************)
\* The search for the run without the check of the target.
is_run_enter_of_any_target(record) ==
    /\ record.span.present
    /\ record.span.name = "run"
    /\ record.kind = SpanEnter

\* find_and_visit_dynamecs_run_span: the record that starts the run
is_dynamecs_run_enter(record) ==
    /\ record.span.present
    /\ record.span.name = "run"
    /\ record.target = DynamecsTarget
    /\ record.kind = SpanEnter

\* visit_dynamecs_run_span: record.thread_id() == run_thread
on_run_thread(record, run_record) == record.thread_id = run_record.thread_id

\* The step loop without the check of the thread.
on_any_thread(record, step_record) == TRUE

\* visit_dynamecs_step_span: record.thread_id() == step_new_record.thread_id()
on_step_thread(record, step_record) == record.thread_id = step_record.thread_id

\* visit_dynamecs_run_span: the match arm ("step", "dynamecs_app", SpanEnter)
is_dynamecs_step_enter(record) ==
    /\ record.span.name = "step"
    /\ record.target = DynamecsTarget
    /\ record.kind = SpanEnter

\* A run loop that is never left on an exit record.
is_run_exit_never(record) == FALSE

\* visit_dynamecs_run_span: the break condition of the SpanExit arm
is_run_exit(record) ==
    /\ record.span.name = "run"
    /\ record.target = DynamecsTarget

\* visit_dynamecs_step_span: the break condition of the SpanExit arm
is_step_exit(record, is_step_span_path) ==
    /\ record.span.name = "step"
    /\ record.target = DynamecsTarget
    /\ is_step_span_path

\* A missing step_index read as 0 (unwrap_or_default instead of ok_or_else).
step_index_or_default(record) ==
    IF record.span.present /\ record.span.step_index >= 0
      THEN record.span.step_index
      ELSE 0

\* visit_dynamecs_step_span: span.fields().pointer("/step_index").as_u64()
step_index_of(record) ==
    IF record.span.present /\ record.span.step_index >= 0
      THEN record.span.step_index
      ELSE NoIndex

NoStep == [some |-> FALSE, step |-> [timings |-> EmptyMap, step_index |-> 0]]

\* The step returned whether or not spans are still active.
finish_step_always(the_accumulator, the_step_index) ==
    [some |-> TRUE,
     step |-> [timings |-> collect_completed_statistics(the_accumulator),
               step_index |-> the_step_index]]

\* visit_dynamecs_step_span: the value returned once the loop is left
finish_step(the_accumulator, the_step_index) ==
    IF has_active_spans(the_accumulator)
      THEN NoStep
      ELSE [some |-> TRUE,
            step |-> [timings |-> collect_completed_statistics(the_accumulator),
                      step_index |-> the_step_index]]

\* The step inserted at the front of the list.
push_step_front(the_steps, optional_step) ==
    IF optional_step.some THEN <<optional_step.step>> \o the_steps ELSE the_steps

\* visit_dynamecs_run_span: if let Some(step) = ... { steps.push(step) }
push_step(the_steps, optional_step) ==
    IF optional_step.some THEN Append(the_steps, optional_step.step) ELSE the_steps


(***************************************************************************)
(* The scan, one record per step.                                          *)
(***************************************************************************)
\* records.next() returned Some(record)
TakeRecord(record) ==
    /\ nread < MaxRecords
    /\ rec' = record
    /\ nread' = nread + 1
    /\ h_first_run' = IF h_first_run = NoRecord
                         /\ record.kind = SpanEnter
                         /\ record.span.present
                         /\ record.span.name = "run"
                         /\ record.target = "dynamecs_app"
                        THEN record ELSE h_first_run

\* An error leaves extract_step_timings through `?`.
Fail(error) ==
    /\ pc' = "Done"
    /\ result' = Err(error)

\* find_and_visit_dynamecs_run_span: one iteration of the search loop and, on
\* a match, visit_dynamecs_run_span up to its loop.
FindRun ==
    /\ pc = "SeekingRun"
    /\ \E record \in Records :
        /\ TakeRecord(record)
        /\ IF is_dynamecs_run_enter(record)
             THEN LET path == create_span_path(record)
                      entered == enter_span(NewAccumulator, path.path, record.timestamp)
                  IN  /\ run_new_record' = record
                      /\ IF ~path.ok
                           THEN Fail("NoSpanInExitRecord") /\ UNCHANGED intransient_accumulator
                           ELSE IF ~entered.ok
                             THEN Fail(entered.error) /\ UNCHANGED intransient_accumulator
                             ELSE /\ intransient_accumulator' = entered.acc
                                  /\ pc' = "InRun"
                                  /\ UNCHANGED result
             ELSE UNCHANGED <<pc, run_new_record, intransient_accumulator, result>>
    /\ UNCHANGED <<steps, step_new_record, step_path, step_index, accumulator>>
    /\ UNCHANGED <<avars, svars, tvars, pvars, cvars, vvars, dvars>>

\* visit_dynamecs_step_span up to its loop, called from the run loop with the
\* step's enter record.
EnterStep(record) ==
    LET path == create_span_path(record)
        entered == enter_span(NewAccumulator, path.path, record.timestamp)
        index == step_index_of(record)
    IN  IF ~path.ok
          THEN /\ Fail("NoSpanInExitRecord")
               /\ UNCHANGED <<step_new_record, step_path, step_index, accumulator>>
          ELSE IF ~entered.ok
            THEN /\ Fail(entered.error)
                 /\ UNCHANGED <<step_new_record, step_path, step_index, accumulator>>
            ELSE IF index = NoIndex
              THEN /\ Fail("MissingStepIndex")
                   /\ UNCHANGED <<step_new_record, step_path, step_index, accumulator>>
              ELSE /\ pc' = "InStep"
                   /\ step_new_record' = record
                   /\ step_path' = path.path
                   /\ step_index' = index
                   /\ accumulator' = entered.acc
                   /\ UNCHANGED result

\* visit_dynamecs_run_span: one iteration of its loop on a record that is
\* not the enter of a step.
VisitRun ==
    /\ pc = "InRun"
    /\ \E record \in Records :
        /\ TakeRecord(record)
        /\ ~(on_run_thread(record, run_new_record) /\ record.span.present
             /\ is_dynamecs_step_enter(record))
        /\ IF on_run_thread(record, run_new_record) /\ record.span.present
                /\ record.kind \in {SpanEnter, SpanExit}
             THEN LET path == create_span_path(record)
                      outcome == IF record.kind = SpanEnter
                                   THEN enter_span(intransient_accumulator, path.path, record.timestamp)
                                   ELSE exit_span(intransient_accumulator, path.path, record.timestamp)
                  IN  IF ~path.ok
                        THEN Fail("NoSpanInExitRecord") /\ UNCHANGED intransient_accumulator
                        ELSE IF ~outcome.ok
                          THEN Fail(outcome.error) /\ UNCHANGED intransient_accumulator
                          ELSE /\ intransient_accumulator' = outcome.acc
                               /\ IF record.kind = SpanExit /\ is_run_exit(record)
                                    THEN /\ pc' = "Done"
                                         /\ result' = OkSeries(steps, outcome.acc)
                                    ELSE UNCHANGED <<pc, result>>
             ELSE UNCHANGED <<pc, intransient_accumulator, result>>
    /\ UNCHANGED <<run_new_record, steps, step_new_record, step_path, step_index, accumulator>>
    /\ UNCHANGED <<avars, svars, tvars, pvars, cvars, vvars, dvars>>

\* visit_dynamecs_run_span: the iteration of its loop that meets the enter of
\* a step and calls visit_dynamecs_step_span.
VisitRunStepEnter ==
    /\ pc = "InRun"
    /\ \E record \in Records :
        /\ TakeRecord(record)
        /\ on_run_thread(record, run_new_record)
        /\ record.span.present
        /\ is_dynamecs_step_enter(record)
        /\ EnterStep(record)
    /\ UNCHANGED <<run_new_record, intransient_accumulator, steps>>
    /\ UNCHANGED <<avars, svars, tvars, pvars, cvars, vvars, dvars>>

\* visit_dynamecs_step_span: one iteration of its loop; on the exit of the
\* step the function returns and the run loop pushes the step it got.
VisitStep ==
    /\ pc = "InStep"
    /\ \E record \in Records :
        /\ TakeRecord(record)
        /\ IF on_step_thread(record, step_new_record) /\ record.span.present
                /\ record.kind \in {SpanEnter, SpanExit}
             THEN LET path == create_span_path(record)
                      is_step_span_path == path.path = step_path
                      outcome == IF record.kind = SpanEnter
                                   THEN enter_span(accumulator, path.path, record.timestamp)
                                   ELSE exit_span(accumulator, path.path, record.timestamp)
                  IN  IF ~path.ok
                        THEN Fail("NoSpanInExitRecord") /\ UNCHANGED <<accumulator, steps>>
                        ELSE IF ~outcome.ok
                          THEN Fail(outcome.error) /\ UNCHANGED <<accumulator, steps>>
                          ELSE IF record.kind = SpanExit /\ is_step_exit(record, is_step_span_path)
                            THEN /\ steps' = push_step(steps, finish_step(outcome.acc, step_index))
                                 /\ accumulator' = outcome.acc
                                 /\ pc' = "InRun"
                                 /\ UNCHANGED result
                            ELSE /\ accumulator' = outcome.acc
                                 /\ UNCHANGED <<pc, steps, result>>
             ELSE UNCHANGED <<pc, accumulator, steps, result>>
    /\ UNCHANGED <<run_new_record, intransient_accumulator, step_new_record, step_path, step_index>>
    /\ UNCHANGED <<avars, svars, tvars, pvars, cvars, vvars, dvars>>

\* records.next() returned None: every loop that is running is left.
EndOfRecords ==
    /\ pc # "Done"
    /\ rec' = NoRecord
    /\ pc' = "Done"
    /\ IF pc = "SeekingRun"
         THEN /\ result' = Err("RunSpanNotFound")
              /\ UNCHANGED steps
         ELSE IF pc = "InRun"
           THEN /\ result' = OkSeries(steps, intransient_accumulator)
                /\ UNCHANGED steps
           ELSE /\ steps' = push_step(steps, finish_step(accumulator, step_index))
                /\ result' = OkSeries(steps', intransient_accumulator)
    /\ UNCHANGED <<nread, run_new_record, intransient_accumulator, step_new_record,
                   step_path, step_index, accumulator, h_first_run>>
    /\ UNCHANGED <<avars, svars, tvars, pvars, cvars, vvars, dvars>>

Next == FindRun \/ VisitRun \/ VisitRunStepEnter \/ VisitStep \/ EndOfRecords

Spec == Init /\ [][Next]_vars


(***************************************************************************)
(* Properties of extract_step_timings (checked under Spec).  The records   *)
(* are read as the claims describe them, independently of the scan.        *)
(***************************************************************************)
\* The path of the span a record enters or exits: the names of its span
\* stack, followed for an exit record by the name of the span being exited.
RecordPath(record) ==
    IF record.kind = SpanExit THEN Append(record.spans, record.span.name) ELSE record.spans

\* This step took a record from the iterator: rec' is that record.
Took == nread' = nread + 1

\* This step found the iterator exhausted.
Exhausted == nread' = nread /\ pc # "Done" /\ pc' = "Done"

\* a span-enter named step with target dynamecs_app
IsStepEnter(record) ==
    /\ record.kind = SpanEnter
    /\ record.span.present
    /\ record.span.name = "step"
    /\ record.target = "dynamecs_app"

\* the exit of the step being scanned: a span-exit named step with target
\* dynamecs_app on the thread of the step, at the path of the step
IsOwnExitOfStep(record) ==
    /\ record.kind = SpanExit
    /\ record.span.present
    /\ record.span.name = "step"
    /\ record.target = "dynamecs_app"
    /\ record.thread_id = step_new_record.thread_id
    /\ RecordPath(record) = RecordPath(step_new_record)

OnRunThread(record) == record.thread_id = run_new_record.thread_id

\* the spans that are open in the step being scanned
OpenInStep == DOMAIN accumulator.enter_timestamps

\* the spans that are open in the run, outside of steps
OpenInRun == DOMAIN intransient_accumulator.enter_timestamps

C1_WitnessInnerOpen ==
    /\ pc = "InRun"
    /\ IsOwnExitOfStep(rec)
    /\ OpenInStep # {}
    /\ steps = << >>

C3_RunSpanNotFoundIffNoRunEnter ==
    /\ (result.status = "err" /\ result.error = "RunSpanNotFound")
          <=> (pc = "Done" /\ h_first_run = NoRecord)
    /\ h_first_run # NoRecord =>
          /\ pc # "SeekingRun"
          /\ run_new_record = h_first_run
    /\ h_first_run = NoRecord =>
          /\ pc \in {"SeekingRun", "Done"}
          /\ run_new_record = NoRecord

\* C3 witness: the records ended without a run enter, after some records.
C3_Witness ==
    /\ result.status = "err"
    /\ result.error = "RunSpanNotFound"
    /\ nread >= 2

\* C3 witness of the other case: the run was found at a record that is not
\* the first of the stream.
C3_WitnessFound ==
    /\ pc = "InRun"
    /\ rec = run_new_record
    /\ nread >= 2

C4_WitnessAlreadyActive ==
    /\ pc = "Done"
    /\ result.status = "err"
    /\ result.error = "SpanAlreadyActive"
    /\ Len(steps) = 1

\* C5: a step enter (named step, target dynamecs_app, on the run thread, met
\* in the run) whose span has no numeric step_index makes
\* extract_step_timings fail with the missing-step-index error.
C5_MissingStepIndexIsFatal ==
    [][(/\ pc = "InRun"
        /\ Took
        /\ OnRunThread(rec')
        /\ IsStepEnter(rec')
        /\ rec'.span.step_index = NoIndex) =>
            /\ pc' = "Done"
            /\ result'.status = "err"
            /\ result'.error = "MissingStepIndex"]_vars

\* C5 witness: the second step enter of the run has no step_index.
C5_Witness ==
    /\ result.status = "err"
    /\ result.error = "MissingStepIndex"
    /\ IsStepEnter(rec)
    /\ rec.span.step_index = NoIndex
    /\ Len(steps) = 1

\* C9 (as claimed): in the run, the scan ends on a record only when that
\* record is a span-exit named run, with target dynamecs_app, on the run
\* thread, whose path is the path of the run span that was entered.
C9_DoneOnlyOnExitOfTheRunPath ==
    [][(pc = "InRun" /\ Took /\ pc' = "Done" /\ result'.status = "ok") =>
            /\ rec'.kind = SpanExit
            /\ rec'.span.name = "run"
            /\ rec'.target = "dynamecs_app"
            /\ OnRunThread(rec')
            /\ RecordPath(rec') = RecordPath(run_new_record)]_vars

\* C10: once the run enter is found, a record of another thread changes
\* nothing of the extraction: the stream gives what it gives without it.
C10_OtherThreadsAreIgnored ==
    [][(pc \in {"InRun", "InStep"} /\ Took /\ ~OnRunThread(rec')) =>
            UNCHANGED <<pc, run_new_record, intransient_accumulator, steps,
                        step_new_record, step_path, step_index, accumulator, result>>]_vars

\* C10 witness: inside a step, the exit of a step arrived from another
\* thread and the scan is still inside the step.
C10_Witness ==
    /\ pc = "InStep"
    /\ rec.kind = SpanExit
    /\ rec.span.name = "step"
    /\ rec.target = "dynamecs_app"
    /\ rec.thread_id # run_new_record.thread_id
    /\ RecordPath(rec) = step_path

(***************************************************************************)
(* A TimingAccumulator on its own: any sequence of enter_span and          *)
(* exit_span calls.  A call that returns Err leaves the accumulator usable. *)
(***************************************************************************)
AccPaths == {<<"run">>, <<"run", "step">>}
AccTimestamps == 0..MaxTs

Call(op, path, timestamp) == [op |-> op, path |-> path, timestamp |-> timestamp]

AccEnter ==
    /\ Len(acc_history) < MaxOps
    /\ \E path \in AccPaths, timestamp \in AccTimestamps :
        LET outcome == enter_span(acc, path, timestamp)
        IN  /\ acc' = outcome.acc
            /\ acc_call' = Call("enter", path, timestamp)
            /\ acc_result' = [ok |-> outcome.ok, error |-> outcome.error]
            /\ acc_history' = Append(acc_history, Call("enter", path, timestamp))
    /\ UNCHANGED <<xvars, svars, tvars, pvars, cvars, vvars, dvars>>

AccExit ==
    /\ Len(acc_history) < MaxOps
    /\ \E path \in AccPaths, timestamp \in AccTimestamps :
        LET outcome == exit_span(acc, path, timestamp)
        IN  /\ acc' = outcome.acc
            /\ acc_call' = Call("exit", path, timestamp)
            /\ acc_result' = [ok |-> outcome.ok, error |-> outcome.error]
            /\ acc_history' = Append(acc_history, Call("exit", path, timestamp))
    /\ UNCHANGED <<xvars, svars, tvars, pvars, cvars, vvars, dvars>>

NextAcc == AccEnter \/ AccExit

SpecAcc == Init /\ [][NextAcc]_vars


(***************************************************************************)
(* Properties of the TimingAccumulator (checked under SpecAcc).            *)
(***************************************************************************)
\* The calls made so far, read on their own: a path is open when the last
\* call made on it is an enter (entered and not yet exited).
RECURSIVE OpenAfter(_, _)
OpenAfter(history, path) ==
    IF history = << >>
      THEN FALSE
      ELSE LET last == history[Len(history)]
           IN  IF last.path = path
                 THEN last.op = "enter"
                 ELSE OpenAfter(SubSeq(history, 1, Len(history) - 1), path)

AccCallMade(op) == acc_history' # acc_history /\ acc_call'.op = op

\* C6: enter(path, ts) fails with span-already-active exactly when path is
\* open (entered and not yet exited); the rejected call leaves the accumulator
\* as it was (the open span keeps its timestamp, nothing is stacked); otherwise
\* path becomes open with enter timestamp ts and nothing else changes.
C6_EnterFailsIffOpen ==
    [][AccCallMade("enter") =>
        LET path == acc_call'.path
            open == OpenAfter(acc_history, path)
        IN  /\ (~acc_result'.ok) <=> open
            /\ open => acc_result'.error = "SpanAlreadyActive" /\ acc' = acc
            /\ ~open =>
                /\ DOMAIN acc'.enter_timestamps = DOMAIN acc.enter_timestamps \cup {path}
                /\ acc'.enter_timestamps[path] = acc_call'.timestamp
                /\ \A other \in DOMAIN acc.enter_timestamps :
                      acc'.enter_timestamps[other] = acc.enter_timestamps[other]
                /\ acc'.completed_statistics = acc.completed_statistics]_vars

\* C6 witness: an enter of an open path was rejected and the open span kept
\* its earlier timestamp.
C6_Witness ==
    /\ acc_call.op = "enter"
    /\ acc_result.error = "SpanAlreadyActive"
    /\ acc_call.path \in DOMAIN acc.enter_timestamps
    /\ acc.enter_timestamps[acc_call.path] # acc_call.timestamp

\* C7: exit(path, ts) fails with span-not-active exactly when path is not
\* open; otherwise it removes path from the open set and adds exactly one
\* invocation to the completed statistics of path, leaving other paths alone.
C7_ExitFailsIffNotOpen ==
    [][AccCallMade("exit") =>
        LET path == acc_call'.path
            open == OpenAfter(acc_history, path)
            count_before == IF path \in DOMAIN acc.completed_statistics
                              THEN acc.completed_statistics[path].count ELSE 0
        IN  /\ (~acc_result'.ok) <=> ~open
            /\ ~open => acc_result'.error = "SpanNotActive" /\ acc' = acc
            /\ open =>
                /\ DOMAIN acc'.enter_timestamps = DOMAIN acc.enter_timestamps \ {path}
                /\ \A other \in DOMAIN acc'.enter_timestamps :
                      acc'.enter_timestamps[other] = acc.enter_timestamps[other]
                /\ DOMAIN acc'.completed_statistics = DOMAIN acc.completed_statistics \cup {path}
                /\ acc'.completed_statistics[path].count = count_before + 1
                /\ \A other \in DOMAIN acc.completed_statistics \ {path} :
                      acc'.completed_statistics[other] = acc.completed_statistics[other]]_vars

\* C7 witness: the second exit of a path succeeded, and an exit of a path
\* that is not open had been rejected before.
C7_Witness ==
    /\ acc_call.op = "exit"
    /\ acc_result.ok
    /\ acc.completed_statistics[acc_call.path].count = 2

\* C7 witness of the failure: an exit of a path that is not open was rejected.
C7_WitnessRejected ==
    /\ acc_call.op = "exit"
    /\ acc_result.error = "SpanNotActive"

\* history is n pairs enter(path, a_i); exit(path, b_i)
IsPairsOn(history, path) ==
    /\ Len(history) % 2 = 0
    /\ \A i \in 1..Len(history) :
        /\ history[i].path = path
        /\ history[i].op = IF i % 2 = 1 THEN "enter" ELSE "exit"

Abs(x) == IF x >= 0 THEN x ELSE -x

\* sum of |b_i - a_i| over the pairs of history
RECURSIVE PairDurations(_)
PairDurations(history) ==
    IF Len(history) < 2
      THEN 0
      ELSE Abs(history[2].timestamp - history[1].timestamp)
           + PairDurations(SubSeq(history, 3, Len(history)))

\* C8: from an empty accumulator, n pairs enter(p, a_i); exit(p, b_i) leave
\* completed[p] with count n and duration the sum of |b_i - a_i|, and no
\* other path in the completed map.
C8_EnterExitRoundTrip ==
    \A path \in AccPaths :
        IsPairsOn(acc_history, path) =>
            IF acc_history = << >>
              THEN DOMAIN acc.completed_statistics = {}
              ELSE /\ DOMAIN acc.completed_statistics = {path}
                   /\ acc.completed_statistics[path].count = Len(acc_history) \div 2
                   /\ acc.completed_statistics[path].duration = PairDurations(acc_history)
                   /\ ~has_active_spans(acc)

\* C8 witness: two pairs on one path, the first with an exit timestamp
\* earlier than its enter timestamp, gave count 2 and a positive duration.
C8_Witness ==
    /\ Len(acc_history) = 4
    /\ IsPairsOn(acc_history, <<"run", "step">>)
    /\ acc_history[2].timestamp < acc_history[1].timestamp
    /\ acc_history[4].timestamp > acc_history[3].timestamp
    /\ acc.completed_statistics[<<"run", "step">>] = [duration |-> 2, count |-> 2]


(***************************************************************************)
(* The buckets of the extraction (checked under Spec): the statistics of   *)
(* the run outside of steps, and the statistics of each step.              *)
(***************************************************************************)
\* The statistics a bucket holds for a path; zero when the path is absent.
StatsOf(bucket, path) == IF path \in DOMAIN bucket THEN bucket[path] ELSE DefaultStats

\* The bucket `after` is the bucket `before` with one more span of the given
\* path and duration, and nothing else.
AddsOneSpan(before, after, path, duration) ==
    /\ DOMAIN after = DOMAIN before \cup {path}
    /\ after[path].count = StatsOf(before, path).count + 1
    /\ after[path].duration = StatsOf(before, path).duration + duration
    /\ \A q \in DOMAIN before : q # path => after[q] = before[q]

\* The bucket of the run outside of steps, and of the step being scanned.
IntransientBucket == intransient_accumulator.completed_statistics
StepBucket == accumulator.completed_statistics

\* The distance between two timestamps.
Distance(t1, t2) == IF t1 >= t2 THEN t1 - t2 ELSE t2 - t1

\* C11: bucket partition.  A span entered and exited on the run thread adds
\* its duration and one count to exactly one bucket: outside of a step, to
\* the intransient bucket (the run span included, when it exits); inside a
\* step, to the bucket of that step, which starts empty when the step is
\* entered and is the bucket pushed when the step is completed.  Nothing else
\* changes a bucket, the buckets of the steps already pushed never change,
\* and a step that is discarded leaves no trace in any bucket.
C11_BucketPartition ==
    [][/\ (/\ pc = "InRun" /\ Took /\ OnRunThread(rec')
           /\ rec'.kind = SpanExit /\ rec'.span.present
           /\ RecordPath(rec') \in OpenInRun) =>
             /\ AddsOneSpan(IntransientBucket, IntransientBucket', RecordPath(rec'),
                            Distance(rec'.timestamp,
                                     intransient_accumulator.enter_timestamps[RecordPath(rec')]))
             /\ steps' = steps
       /\ ~(/\ pc = "InRun" /\ Took /\ OnRunThread(rec')
            /\ rec'.kind = SpanExit /\ rec'.span.present
            /\ RecordPath(rec') \in OpenInRun) =>
             IntransientBucket' = IntransientBucket
       /\ (/\ pc = "InStep" /\ Took /\ OnRunThread(rec')
           /\ rec'.kind = SpanExit /\ rec'.span.present
           /\ RecordPath(rec') \in OpenInStep) =>
             AddsOneSpan(StepBucket, StepBucket', RecordPath(rec'),
                         Distance(rec'.timestamp,
                                  accumulator.enter_timestamps[RecordPath(rec')]))
       /\ (/\ pc = "InStep"
           /\ ~(/\ Took /\ OnRunThread(rec')
                /\ rec'.kind = SpanExit /\ rec'.span.present
                /\ RecordPath(rec') \in OpenInStep)) =>
             StepBucket' = StepBucket
       /\ (pc = "InRun" /\ pc' = "InStep") => StepBucket' = EmptyMap
       /\ \/ steps' = steps
          \/ /\ pc = "InStep"
             /\ Len(steps') = Len(steps) + 1
             /\ SubSeq(steps', 1, Len(steps)) = steps
             /\ steps'[Len(steps')].timings = StepBucket'
             /\ OpenInStep \subseteq {RecordPath(step_new_record)}
       /\ result'.status = "ok" =>
             /\ result'.intransient_timings = IntransientBucket'
             /\ result'.steps = steps']_vars

\* C11 witness: the run ended with one completed step; the run span is
\* counted once in the intransient bucket and the step span once in the
\* bucket of the step.
C11_Witness ==
    /\ pc = "Done"
    /\ result.status = "ok"
    /\ Len(result.steps) = 1
    /\ <<"run">> \in DOMAIN result.intransient_timings
    /\ result.intransient_timings[<<"run">>].count = 1
    /\ DOMAIN result.steps[1].timings = {<<"run", "step">>}
    /\ result.steps[1].timings[<<"run", "step">>].count = 1

\* C11 witness of a span inside a step: it is counted in the bucket of the
\* step, with a duration that is not zero, and not in the intransient bucket.
C11_WitnessInnerSpan ==
    /\ pc = "Done"
    /\ result.status = "ok"
    /\ Len(result.steps) = 1
    /\ <<"run", "step", "a">> \in DOMAIN result.steps[1].timings
    /\ result.steps[1].timings[<<"run", "step", "a">>].duration = MaxTs
    /\ DOMAIN result.intransient_timings = {}


(***************************************************************************)
(* AccumulatedTimings::merge_with_others and                               *)
(* AccumulatedTimingSeries::summarize (timing.rs), applied to a series     *)
(* drawn from a small set of series.                                       *)
(***************************************************************************)
SeriesPaths == {<<"run">>, <<"run", "step">>}
SeriesStats == {[duration |-> 1, count |-> 1], [duration |-> 2, count |-> 3]}

\* Every AccumulatedTimings over these paths and statistics.
SeriesBuckets == UNION {[D -> SeriesStats] : D \in SUBSET SeriesPaths}

\* Every series of at most MaxSteps steps.
SeriesInputs ==
    {[steps |-> [i \in 1..n |-> [timings |-> b[i], step_index |-> i - 1]],
      intransient_timings |-> t] :
        <<n, b, t>> \in UNION {{<<m, c, u>> : c \in [1..m -> SeriesBuckets], u \in SeriesBuckets} :
                                m \in 0..MaxSteps}}

\* merge_with_others, the inner loop: every entry of one other map is
\* combined into the entry of self at the same path (or_default for a path
\* self does not have).
merge_span_stats(self, other) ==
    [path \in (DOMAIN self) \cup (DOMAIN other) |->
        IF path \in DOMAIN other
          THEN combine_mut(EntryOrDefault(self, path), other[path])
          ELSE self[path]]

\* merge_with_others, the outer loop over the others, in their order.
RECURSIVE merge_with_others(_, _)
merge_with_others(self, others) ==
    IF Len(others) = 0
      THEN self
      ELSE merge_with_others(merge_span_stats(self, Head(others)), Tail(others))

\* summarize: the clone of the intransient timings merged with the timings
\* of the steps.
summarize(self) ==
    merge_with_others(self.intransient_timings,
                      [i \in 1..Len(self.steps) |-> self.steps[i].timings])

InitSeries ==
    /\ InitExtract /\ InitAccumulator /\ IdleTree
    /\ IdlePath /\ IdleTimingTree /\ IdleStorage /\ IdleDynamecs
    /\ series \in SeriesInputs
    /\ summary = NoSummary

\* series.summarize()
Summarize ==
    /\ ~summary.some
    /\ summary' = [some |-> TRUE, timings |-> summarize(series)]
    /\ UNCHANGED series
    /\ UNCHANGED <<xvars, avars, tvars, pvars, cvars, vvars, dvars>>

NextSeries == Summarize

SpecSeries == InitSeries /\ [][NextSeries]_vars

\* The buckets of a series: the intransient bucket, then those of the steps.
BucketsOf(the_series) ==
    <<the_series.intransient_timings>> \o
        [i \in 1..Len(the_series.steps) |-> the_series.steps[i].timings]

RECURSIVE SumOfDurations(_, _)
SumOfDurations(buckets, path) ==
    IF Len(buckets) = 0 THEN 0
    ELSE StatsOf(Head(buckets), path).duration + SumOfDurations(Tail(buckets), path)

RECURSIVE SumOfCounts(_, _)
SumOfCounts(buckets, path) ==
    IF Len(buckets) = 0 THEN 0
    ELSE StatsOf(Head(buckets), path).count + SumOfCounts(Tail(buckets), path)

\* The timings hold, for the paths of the buckets and no other, the sums of
\* the durations and of the counts over the buckets.
IsSumOfBuckets(timings, buckets) ==
    /\ DOMAIN timings = UNION {DOMAIN buckets[i] : i \in 1..Len(buckets)}
    /\ \A path \in DOMAIN timings :
          /\ timings[path].duration = SumOfDurations(buckets, path)
          /\ timings[path].count = SumOfCounts(buckets, path)

\* The series with its steps in another order.
Reordered(the_series, order) ==
    [the_series EXCEPT !.steps = [i \in 1..Len(the_series.steps) |-> the_series.steps[order[i]]]]

\* C12: summarize() returns, for every span path, the sums of the durations
\* and of the counts over the intransient bucket and the buckets of all the
\* steps (a bucket without the path adds nothing, a path of no bucket is
\* absent); the steps in any other order give the same summary; and the
\* series is left as it was.
C12_SummaryIsSumOfBuckets ==
    [][summary' # summary =>
        /\ summary'.some
        /\ IsSumOfBuckets(summary'.timings, BucketsOf(series))
        /\ \A order \in Permutations(1..Len(series.steps)) :
              LET other == summarize(Reordered(series, order))
              IN  /\ DOMAIN other = DOMAIN summary'.timings
                  /\ \A path \in DOMAIN other : other[path] = summary'.timings[path]
        /\ series' = series]_vars

\* C12 witness: a series of two steps was summarized; the path run>step is
\* in both steps and not in the intransient bucket, the path run is in the
\* intransient bucket and in the second step only.
C12_Witness ==
    /\ summary.some
    /\ Len(series.steps) = 2
    /\ DOMAIN series.intransient_timings = {<<"run">>}
    /\ DOMAIN series.steps[1].timings = {<<"run", "step">>}
    /\ DOMAIN series.steps[2].timings = {<<"run">>, <<"run", "step">>}
    /\ series.steps[1].timings[<<"run", "step">>].duration = 1
    /\ series.steps[2].timings[<<"run", "step">>].duration = 2
    /\ summary.timings[<<"run", "step">>].duration = 3
    /\ summary.timings[<<"run", "step">>].count = 4


(***************************************************************************)
(* SpanPath (span_path.rs).  A path is the sequence of its span names.     *)
(***************************************************************************)
\* The length of the shorter of the two, whatever the names are.
zip_count(xs, ys) == IF Len(xs) <= Len(ys) THEN Len(xs) ELSE Len(ys)

\* .iter().zip(other).take_while(|(x, y)| x == y).count()
zip_take_while_eq_count(xs, ys) ==
    LET shortest == IF Len(xs) <= Len(ys) THEN Len(xs) ELSE Len(ys)
    IN  Cardinality({k \in 1..shortest : \A i \in 1..k : xs[i] = ys[i]})

depth(self) == Len(self)

NoName == ""

\* span_name: the last name, as an Option
span_name(self) ==
    IF Len(self) > 0 THEN [some |-> TRUE, name |-> self[Len(self)]]
                     ELSE [some |-> FALSE, name |-> NoName]

\* SpanPath::parent, as an Option
SpanPath_parent(self) ==
    LET n == Len(self)
    IN  IF n > 0 THEN [some |-> TRUE, path |-> SubSeq(self, 1, n - 1)]
                 ELSE [some |-> FALSE, path |-> << >>]

\* A parent told by the depths alone, whatever the names are.
is_parent_of_by_depth(self, other) == Len(self) + 1 = Len(other)

is_parent_of(self, other) ==
    LET n == zip_take_while_eq_count(self, other)
    IN  n = Len(self) /\ n + 1 = Len(other)

\* An ancestor that has to be strictly shorter than its descendant.
is_ancestor_of_strict(self, other) ==
    LET n == zip_take_while_eq_count(self, other)
    IN  n = Len(self) /\ Len(self) < Len(other)

\* An ancestor that has to be exactly one name shorter than its descendant.
is_ancestor_of_one_level(self, other) ==
    LET n == zip_take_while_eq_count(self, other)
    IN  n = Len(self) /\ Len(self) + 1 >= Len(other)

is_ancestor_of(self, other) ==
    LET n == zip_take_while_eq_count(self, other)
    IN  n = Len(self)

(***************************************************************************)
(* The order of span names and of slices of span names (Ord of String and  *)
(* of [String]): names by their bytes, slices lexicographically.           *)
(***************************************************************************)
TreeNames == {"a", "b"}

name_order(name) == CASE name = "a" -> 1 [] name = "b" -> 2

Less == "Less"
Equal == "Equal"
Greater == "Greater"

\* xs.cmp(ys) on slices of names
cmp_span_names(xs, ys) ==
    LET n == zip_take_while_eq_count(xs, ys)
    IN  IF n = Len(xs) /\ n = Len(ys) THEN Equal
        ELSE IF n = Len(xs) THEN Less
        ELSE IF n = Len(ys) THEN Greater
        ELSE IF name_order(xs[n + 1]) < name_order(ys[n + 1]) THEN Less
        ELSE Greater

(***************************************************************************)
(* slice::binary_search_by_key of the standard library.  On a slice that   *)
(* is not sorted its result is unspecified; the two implementations the    *)
(* standard library has had are modelled, and a caller gets either.        *)
(* Indices are counted from 0, as in the source.                           *)
(***************************************************************************)
At(slice, index) == slice[index + 1]

NotFound == [ok |-> FALSE, index |-> 0]
Found(index) == [ok |-> TRUE, index |-> index]

\* the loop that returns as soon as an element compares equal
RECURSIVE binary_search_early_return(_, _, _, _, _)
binary_search_early_return(slice, key, left, right, size) ==
    IF left < right
      THEN LET mid == left + (size \div 2)
               cmp == cmp_span_names(At(slice, mid), key)
           IN  IF cmp = Less
                 THEN binary_search_early_return(slice, key, mid + 1, right, right - (mid + 1))
                 ELSE IF cmp = Greater
                   THEN binary_search_early_return(slice, key, left, mid, mid - left)
                   ELSE Found(mid)
      ELSE NotFound

\* the loop that halves the slice down to one element and compares it last
RECURSIVE binary_search_branchless(_, _, _, _)
binary_search_branchless(slice, key, base, size) ==
    IF size > 1
      THEN LET half == size \div 2
               mid == base + half
               cmp == cmp_span_names(At(slice, mid), key)
           IN  binary_search_branchless(slice, key, IF cmp = Greater THEN base ELSE mid, size - half)
      ELSE IF cmp_span_names(At(slice, base), key) = Equal THEN Found(base) ELSE NotFound

BinarySearches == {"early_return", "branchless"}

\* slice.binary_search_by_key(&key, |path| path.span_names()).ok()
binary_search_by_key(slice, key, search) ==
    IF Len(slice) = 0 THEN NotFound
    ELSE IF search = "early_return"
      THEN binary_search_early_return(slice, key, 0, Len(slice), Len(slice))
      ELSE binary_search_branchless(slice, key, 0, Len(slice))

(***************************************************************************)
(* SpanTree and SpanTreeNode (span_tree.rs).  A node of a tree is the      *)
(* tree and an index, counted from 0.                                      *)
(***************************************************************************)
TreeErr(message) == [status |-> "err", error |-> message, tree |-> NoTree]
TreeOk(paths, payloads) ==
    [status |-> "ok", error |-> "", tree |-> [tree_depth_first |-> paths, payloads |-> payloads]]

\* The loop without the check for missing intermediate nodes: a path deeper
\* than a child of the stack is pushed whole.
RECURSIVE validate_depth_first_lenient(_, _, _, _)
validate_depth_first_lenient(paths, position, stack, root_depth) ==
    IF position >= Len(paths)
      THEN ""
      ELSE LET path == At(paths, position)
               num_common_names == zip_take_while_eq_count(stack, path)
           IN  IF num_common_names < root_depth
                 THEN "first path is not an ancestor of all other nodes"
                 ELSE IF depth(path) >= num_common_names + 1
                   THEN validate_depth_first_lenient(paths, position + 1, path, root_depth)
                   ELSE "duplicate paths detected"

\* try_from_depth_first_ordering: the loop over the paths after the first,
\* from the path at `position` on; "" when no path is rejected.
RECURSIVE validate_depth_first(_, _, _, _)
validate_depth_first(paths, position, stack, root_depth) ==
    IF position >= Len(paths)
      THEN ""
      ELSE LET path == At(paths, position)
               num_common_names == zip_take_while_eq_count(stack, path)
           IN  IF num_common_names < root_depth
                 THEN "first path is not an ancestor of all other nodes"
                 ELSE IF depth(path) > num_common_names + 1
                   THEN "intermediate nodes missing"
                   ELSE IF depth(path) = num_common_names + 1
                     THEN validate_depth_first(paths, position + 1,
                              Append(SubSeq(stack, 1, num_common_names), span_name(path).name),
                              root_depth)
                     ELSE IF depth(path) = num_common_names
                       THEN "duplicate paths detected"
                       ELSE "unreachable"

\* The constructor without the check that the first path is an ancestor of
\* the others.
try_from_depth_first_ordering_any_root(paths, payloads) ==
    IF Len(paths) = 0
      THEN TreeErr("there must be at least one path in the tree")
      ELSE LET root == At(paths, 0)
               message == validate_depth_first(paths, 1, root, 0)
           IN  IF message # "" THEN TreeErr(message) ELSE TreeOk(paths, payloads)

try_from_depth_first_ordering(paths, payloads) ==
    IF Len(paths) = 0
      THEN TreeErr("there must be at least one path in the tree")
      ELSE LET root == At(paths, 0)
               message == validate_depth_first(paths, 1, root, depth(root))
           IN  IF message # "" THEN TreeErr(message) ELSE TreeOk(paths, payloads)

\* sort_by span_names, a stable sort: the place of the pair at `index` is
\* the number of pairs that go before it.
sorted_place(paths, index) ==
    Cardinality({j \in 0..(Len(paths) - 1) :
        \/ cmp_span_names(At(paths, j), At(paths, index)) = Less
        \/ cmp_span_names(At(paths, j), At(paths, index)) = Equal /\ j < index})

from_paths_and_payloads(paths, payloads) ==
    LET from_place(place) == CHOOSE index \in 0..(Len(paths) - 1) : sorted_place(paths, index) = place
    IN  [tree_depth_first |-> [k \in 1..Len(paths) |-> At(paths, from_place(k - 1))],
         payloads |-> [k \in 1..Len(paths) |-> At(payloads, from_place(k - 1))]]

payload(tree, index) == At(tree.payloads, index)

path(tree, index) == At(tree.tree_depth_first, index)

\* SpanTreeNode::root: the node at index 0
SpanTreeNode_root(tree, index) == 0

NoNode == [some |-> FALSE, index |-> 0]
SomeNode(index) == [some |-> TRUE, index |-> index]

\* SpanTreeNode::parent
SpanTreeNode_parent(tree, index, search) ==
    LET parent_path == SpanPath_parent(path(tree, index))
    IN  IF ~parent_path.some
          THEN NoNode
          ELSE LET found == binary_search_by_key(SubSeq(tree.tree_depth_first, 1, index),
                                                 parent_path.path, search)
               IN  IF found.ok THEN SomeNode(found.index) ELSE NoNode

\* Every descendant yielded, not the immediate children only.
visit_children_descendants(tree, index) ==
    LET len == Len(tree.tree_depth_first)
        stops == {j \in (index + 1)..(len - 1) :
                     ~is_ancestor_of(path(tree, index), path(tree, j))}
        end == IF stops = {} THEN len ELSE CHOOSE j \in stops : \A k \in stops : j <= k
    IN  [k \in 1..(end - 1 - index) |-> index + k]

\* SpanTreeNode::visit_children: the indices of the nodes it yields, in order
visit_children(tree, index) ==
    LET len == Len(tree.tree_depth_first)
        stops == {j \in (index + 1)..(len - 1) :
                     ~is_ancestor_of(path(tree, index), path(tree, j))}
        end == IF stops = {} THEN len ELSE CHOOSE j \in stops : \A k \in stops : j <= k
    IN  SelectSeq([k \in 1..(end - 1 - index) |-> index + k],
                  LAMBDA child_index : is_parent_of(path(tree, index), path(tree, child_index)))

count_children(tree, index) == Len(visit_children(tree, index))

\* write_timing_tree_node (timing.rs): a node, then each of its children
\* with its own children, in the order of visit_children.  The result is the
\* sequence of the indices visited.
RECURSIVE visit_nodes(_, _, _)
RECURSIVE visit_node(_, _)
visit_nodes(tree, children, position) ==
    IF position > Len(children) THEN << >>
    ELSE visit_node(tree, children[position]) \o visit_nodes(tree, children, position + 1)

visit_node(tree, index) ==
    <<index>> \o visit_nodes(tree, visit_children(tree, index), 1)

\* The closure given to transform_payloads by create_timing_tree (timing.rs)
\* reads the payload of the node, of its parent and of the root; here it
\* returns the three, and NoPayload for a parent that is None.
NoPayload == -1

derive_payload(tree, index, search) ==
    LET parent_node == SpanTreeNode_parent(tree, index, search)
    IN  [of_node |-> payload(tree, index),
         of_parent |-> IF parent_node.some THEN payload(tree, parent_node.index) ELSE NoPayload,
         of_root |-> payload(tree, SpanTreeNode_root(tree, index))]

\* transform_payloads with that closure
transform_payloads(self, search) ==
    LET new_payloads == [k \in 1..Len(self.tree_depth_first) |-> derive_payload(self, k - 1, search)]
    IN  from_paths_and_payloads(self.tree_depth_first, new_payloads)

(***************************************************************************)
(* A tree is built from paths drawn from a small set, and operations are   *)
(* made on the tree that was built.                                        *)
(***************************************************************************)
TreePaths == {<< >>, <<"a">>, <<"b">>, <<"a", "a">>, <<"a", "b">>, <<"b", "a">>, <<"b", "b">>}

TreeInputs == UNION {[1..n -> TreePaths] : n \in 0..MaxTreeLen}

\* The payload given with the path at a place (counted from 1): all differ.
FirstPayload == 100
payload_given(place) == FirstPayload + place

InitTree ==
    /\ InitExtract /\ InitAccumulator /\ IdleSeries
    /\ IdlePath /\ IdleTimingTree /\ IdleStorage /\ IdleDynamecs
    /\ tree_paths \in TreeInputs
    /\ tree_payloads = [k \in 1..Len(tree_paths) |-> payload_given(k)]
    /\ tree_result = NoTreeResult
    /\ node_call = NoNodeCall
    /\ node_result = NoNodeResult

NodeCall(op, index, search) == [op |-> op, index |-> index, search |-> search]

NodesOf(tree) == 0..(Len(tree.tree_depth_first) - 1)

\* SpanTree::try_from_depth_first_ordering(paths, payloads)
BuildTree ==
    /\ tree_result.status = "none"
    /\ tree_result' = try_from_depth_first_ordering(tree_paths, tree_payloads)
    /\ UNCHANGED <<tree_paths, tree_payloads, node_call, node_result>>
    /\ UNCHANGED <<xvars, avars, svars, pvars, cvars, vvars, dvars>>

\* node.parent(), on a node of the tree
NodeParent ==
    /\ tree_result.status = "ok"
    /\ \E index \in NodesOf(tree_result.tree), search \in BinarySearches :
          LET parent_node == SpanTreeNode_parent(tree_result.tree, index, search)
          IN  /\ node_call' = NodeCall("parent", index, search)
              /\ node_result' = [NoNodeResult EXCEPT !.some = parent_node.some,
                                                      !.index = parent_node.index]
    /\ UNCHANGED <<tree_paths, tree_payloads, tree_result>>
    /\ UNCHANGED <<xvars, avars, svars, pvars, cvars, vvars, dvars>>

\* node.visit_children() and node.count_children(), on a node of the tree
NodeVisitChildren ==
    /\ tree_result.status = "ok"
    /\ \E index \in NodesOf(tree_result.tree) :
          /\ node_call' = NodeCall("visit_children", index, "")
          /\ node_result' = [NoNodeResult EXCEPT !.nodes = visit_children(tree_result.tree, index),
                                                  !.count = count_children(tree_result.tree, index)]
    /\ UNCHANGED <<tree_paths, tree_payloads, tree_result>>
    /\ UNCHANGED <<xvars, avars, svars, pvars, cvars, vvars, dvars>>

\* the traversal from tree.root()
TraverseTree ==
    /\ tree_result.status = "ok"
    /\ node_call' = NodeCall("traverse", 0, "")
    /\ node_result' = [NoNodeResult EXCEPT !.nodes = visit_node(tree_result.tree, 0)]
    /\ UNCHANGED <<tree_paths, tree_payloads, tree_result>>
    /\ UNCHANGED <<xvars, avars, svars, pvars, cvars, vvars, dvars>>

\* tree.transform_payloads(closure)
TransformPayloads ==
    /\ tree_result.status = "ok"
    /\ \E search \in BinarySearches :
          /\ node_call' = NodeCall("transform_payloads", 0, search)
          /\ node_result' = [NoNodeResult EXCEPT !.tree = transform_payloads(tree_result.tree, search)]
    /\ UNCHANGED <<tree_paths, tree_payloads, tree_result>>
    /\ UNCHANGED <<xvars, avars, svars, pvars, cvars, vvars, dvars>>

NextTree == BuildTree \/ NodeParent \/ NodeVisitChildren \/ TraverseTree \/ TransformPayloads

SpecTree == InitTree /\ [][NextTree]_vars


(***************************************************************************)
(* Properties of SpanTree (checked under SpecTree).  Paths are compared as *)
(* the claims describe them, independently of the operations of SpanPath.  *)
(***************************************************************************)
\* p is a prefix of q (q itself included)
IsPrefixOf(p, q) == Len(p) <= Len(q) /\ SubSeq(q, 1, Len(p)) = p

\* p is q with its last name removed
IsImmediateParentOf(p, q) == Len(q) = Len(p) + 1 /\ SubSeq(q, 1, Len(p)) = p

\* the constructor has returned, and returned a tree / an error
Built == tree_result.status = "ok"
Rejected == tree_result.status = "err"
TheTree == tree_result.tree
ThePaths == tree_result.tree.tree_depth_first

\* the paths of the tree are in the order of their names
IsSorted(paths) ==
    \A i \in 1..Len(paths), j \in 1..Len(paths) :
        i < j => cmp_span_names(paths[i], paths[j]) # Greater

HasDuplicates(paths) ==
    \E i \in 1..Len(paths), j \in 1..Len(paths) : i # j /\ paths[i] = paths[j]

\* C13: in every SpanTree returned by try_from_depth_first_ordering the
\* first path is a prefix of every other path, and every path other than
\* the first has its immediate parent at a strictly earlier index.
C13_RootIsPrefixAndParentsComeFirst ==
    Built =>
        \A i \in 2..Len(ThePaths) :
            /\ IsPrefixOf(ThePaths[1], ThePaths[i])
            /\ \E j \in 1..(i - 1) : IsImmediateParentOf(ThePaths[j], ThePaths[i])

\* C13 witness: a tree of five paths was returned, whose root is not the
\* empty path and whose children are not in the order of their names.
C13_Witness ==
    /\ Built
    /\ Len(ThePaths) = MaxTreeLen
    /\ ThePaths[1] = <<"a">>
    /\ ThePaths[2] = <<"a", "b">>
    /\ ThePaths[3] = <<"a", "a">>

\* C14 (as claimed): try_from_depth_first_ordering rejects every input in
\* which the same path occurs at two positions, adjacent or not, so a tree
\* that was built never holds the same path twice.
C14_NoDuplicatePaths ==
    /\ (tree_result.status # "none" /\ HasDuplicates(tree_paths)) => Rejected
    /\ Built => ~HasDuplicates(ThePaths)

\* The duplicates the constructor does reject: a path equal to the path
\* before it, or to an ancestor of the path before it.
C14_DuplicateOfTheStackIsRejected ==
    (/\ tree_result.status # "none"
     /\ \E i \in 2..Len(tree_paths) : IsPrefixOf(tree_paths[i], tree_paths[i - 1])
                                        /\ IsPrefixOf(tree_paths[1], tree_paths[i])) => Rejected

\* C15: try_from_depth_first_ordering rejects every input that holds a path
\* which does not have the first path as a prefix.
C15_PathOutsideTheRootIsRejected ==
    (/\ tree_result.status # "none"
     /\ \E i \in 2..Len(tree_paths) : ~IsPrefixOf(tree_paths[1], tree_paths[i])) => Rejected

\* C15 witness: the third path given is beside the first one, and the input
\* was rejected for it.
C15_Witness ==
    /\ Rejected
    /\ tree_result.error = "first path is not an ancestor of all other nodes"
    /\ Len(tree_paths) = 3
    /\ tree_paths[1] = <<"a">>
    /\ tree_paths[2] = <<"a", "b">>
    /\ tree_paths[3] = <<"b">>

\* C15 witness of a path above the first one.
C15_WitnessAbove ==
    /\ Rejected
    /\ Len(tree_paths) = 2
    /\ tree_paths[1] = <<"a">>
    /\ tree_paths[2] = << >>

\* C16: try_from_depth_first_ordering rejects every input in which a path
\* other than the first has an immediate parent that does not occur at an
\* earlier position.
C16_MissingParentIsRejected ==
    (/\ tree_result.status # "none"
     /\ \E i \in 2..Len(tree_paths) :
            /\ Len(tree_paths[i]) > 0
            /\ \A j \in 1..(i - 1) : ~IsImmediateParentOf(tree_paths[j], tree_paths[i])) => Rejected

\* C16 witness: a path two names below the root came without its parent.
C16_Witness ==
    /\ Rejected
    /\ tree_result.error = "intermediate nodes missing"
    /\ Len(tree_paths) = 3
    /\ tree_paths[1] = << >>
    /\ tree_paths[2] = <<"a">>
    /\ tree_paths[3] = <<"b", "a">>

\* C17: for every input the constructor accepts, the traversal from the
\* root that follows visit_children visits exactly the paths of the input,
\* each at one node and with the payload given for it: every place of the
\* input is visited once, and nothing else is.
C17_TraversalVisitsTheInput ==
    (Built /\ node_call.op = "traverse") =>
        LET visited == node_result.nodes
        IN  /\ Len(visited) = Len(tree_paths)
            /\ {visited[k] : k \in 1..Len(visited)} = 0..(Len(tree_paths) - 1)
            /\ {<<path(TheTree, visited[k]), payload(TheTree, visited[k])>> : k \in 1..Len(visited)}
                   = {<<tree_paths[k], tree_payloads[k]>> : k \in 1..Len(tree_paths)}

\* C17 witness: a tree of five nodes on three levels was traversed.
C17_Witness ==
    /\ Built
    /\ node_call.op = "traverse"
    /\ Len(node_result.nodes) = MaxTreeLen
    /\ \E i \in 1..Len(ThePaths) : Len(ThePaths[i]) = Len(ThePaths[1]) + 2
    /\ \E i \in 1..Len(ThePaths) : i > 2 /\ Len(ThePaths[i]) = Len(ThePaths[1]) + 1

\* C18 (as claimed): for every tree the constructor accepts and every node
\* other than the root, parent() returns the node whose path is the path of
\* this node with its last name removed; parent() is None only for the root.
C18_ParentIsThePathWithoutItsLastName ==
    (Built /\ node_call.op = "parent") =>
        IF node_call.index = 0
          THEN ~node_result.some
          ELSE /\ node_result.some
               /\ IsImmediateParentOf(path(TheTree, node_result.index),
                                      path(TheTree, node_call.index))

\* parent() is as claimed on the trees whose paths are in the order of
\* their names.
C18_HoldsOnSortedTrees ==
    (Built /\ node_call.op = "parent" /\ IsSorted(ThePaths)) =>
        IF node_call.index = 0
          THEN ~node_result.some
          ELSE /\ node_result.some
               /\ IsImmediateParentOf(path(TheTree, node_result.index),
                                      path(TheTree, node_call.index))

\* The nodes of the tree whose path has the path of the node as immediate
\* parent, in the order of the tree.
ChildrenOf(tree, index) ==
    SelectSeq([k \in 1..Len(tree.tree_depth_first) |-> k - 1],
              LAMBDA other : IsImmediateParentOf(path(tree, index), path(tree, other)))

\* C19 (as claimed): visit_children() of a node yields exactly the nodes of
\* the tree whose path has the path of this node as immediate parent, in the
\* order of the tree, and count_children() is their number.
C19_ChildrenAreTheImmediateChildren ==
    (Built /\ node_call.op = "visit_children") =>
        /\ node_result.nodes = ChildrenOf(TheTree, node_call.index)
        /\ node_result.count = Len(ChildrenOf(TheTree, node_call.index))

\* visit_children() is as claimed on the trees that hold no path twice.
C19_HoldsWithoutDuplicates ==
    (Built /\ node_call.op = "visit_children" /\ ~HasDuplicates(ThePaths)) =>
        /\ node_result.nodes = ChildrenOf(TheTree, node_call.index)
        /\ node_result.count = Len(ChildrenOf(TheTree, node_call.index))

\* C20 (as claimed): transform_payloads(f) returns a tree with the same
\* paths at the same indices, whose payload at each index is f applied to
\* the node of the original tree at that index (the parent and the root f
\* reads are those of the original tree).
C20_TransformKeepsThePaths ==
    (Built /\ node_call.op = "transform_payloads") =>
        /\ node_result.tree.tree_depth_first = ThePaths
        /\ Len(node_result.tree.payloads) = Len(ThePaths)
        /\ \A index \in NodesOf(TheTree) :
              payload(node_result.tree, index) = derive_payload(TheTree, index, node_call.search)

\* transform_payloads is as claimed on the trees whose paths are in the
\* order of their names and hold no path twice.
C20_HoldsOnSortedTrees ==
    (Built /\ node_call.op = "transform_payloads" /\ IsSorted(ThePaths)) =>
        /\ node_result.tree.tree_depth_first = ThePaths
        /\ Len(node_result.tree.payloads) = Len(ThePaths)
        /\ \A index \in NodesOf(TheTree) :
              payload(node_result.tree, index) = derive_payload(TheTree, index, node_call.search)


(***************************************************************************)
(* SpanPath::common_ancestor (span_path.rs), and the operations of         *)
(* SpanPath applied to paths drawn from a small set.                       *)
(***************************************************************************)
\* The names of self up to the length of the shorter path, not compared.
common_ancestor_unchecked(self, other) ==
    SubSeq(self, 1, IF Len(self) <= Len(other) THEN Len(self) ELSE Len(other))

\* The common names without the last one.
common_ancestor_strict(self, other) ==
    LET n == zip_take_while_eq_count(self, other)
    IN  SubSeq(self, 1, IF n > 0 THEN n - 1 ELSE 0)

\* zip, map_while the names are equal, collect
common_ancestor(self, other) == SubSeq(self, 1, zip_take_while_eq_count(self, other))

PathInputs ==
    {<< >>, <<"a">>, <<"b">>, <<"aa">>, <<"a", "b">>, <<"a", "aa">>, <<"b", "a">>,
     <<"aa", "b">>, <<"a", "b", "a">>}

InitPath ==
    /\ InitExtract /\ InitAccumulator /\ IdleSeries /\ IdleTree
    /\ IdleTimingTree /\ IdleStorage /\ IdleDynamecs
    /\ path_self \in PathInputs
    /\ path_other \in PathInputs
    /\ path_third \in PathInputs
    /\ path_call = [op |-> "none"]
    /\ path_result = NoPathResult

\* path_self.parent()
PathParent ==
    /\ path_call' = [op |-> "parent"]
    /\ path_result' = [NoPathResult EXCEPT !.some = SpanPath_parent(path_self).some,
                                            !.path = SpanPath_parent(path_self).path]
    /\ UNCHANGED <<path_self, path_other, path_third>>
    /\ UNCHANGED <<xvars, avars, svars, tvars, cvars, vvars, dvars>>

\* path_self.is_parent_of(&path_other)
PathIsParentOf ==
    /\ path_call' = [op |-> "is_parent_of"]
    /\ path_result' = [NoPathResult EXCEPT !.flag = is_parent_of(path_self, path_other)]
    /\ UNCHANGED <<path_self, path_other, path_third>>
    /\ UNCHANGED <<xvars, avars, svars, tvars, cvars, vvars, dvars>>

\* path_self.is_ancestor_of(&path_other)
PathIsAncestorOf ==
    /\ path_call' = [op |-> "is_ancestor_of"]
    /\ path_result' = [NoPathResult EXCEPT !.flag = is_ancestor_of(path_self, path_other)]
    /\ UNCHANGED <<path_self, path_other, path_third>>
    /\ UNCHANGED <<xvars, avars, svars, tvars, cvars, vvars, dvars>>

\* path_self.common_ancestor(&path_other): a SpanPath, never an absent one
PathCommonAncestor ==
    /\ path_call' = [op |-> "common_ancestor"]
    /\ path_result' = [NoPathResult EXCEPT !.some = TRUE,
                                            !.path = common_ancestor(path_self, path_other)]
    /\ UNCHANGED <<path_self, path_other, path_third>>
    /\ UNCHANGED <<xvars, avars, svars, tvars, cvars, vvars, dvars>>

NextPath == PathParent \/ PathIsParentOf \/ PathIsAncestorOf \/ PathCommonAncestor

SpecPath == InitPath /\ [][NextPath]_vars


(***************************************************************************)
(* Properties of SpanPath (checked under SpecPath).                        *)
(***************************************************************************)
\* p is a prefix of q and shorter than q
IsProperPrefixOf(p, q) == Len(p) < Len(q) /\ SubSeq(q, 1, Len(p)) = p

\* The prefixes of a path, the path itself included.
PrefixesOf(p) == {SubSeq(p, 1, k) : k \in 0..Len(p)}

C22_AncestorIsTransitiveAndAgreesWithParent ==
    /\ path_call.op = "parent" =>
          /\ path_result.some <=> Len(path_self) > 0
          /\ path_result.some => is_ancestor_of(path_result.path, path_self)
    /\ (is_ancestor_of(path_self, path_other) /\ is_ancestor_of(path_other, path_third)) =>
          is_ancestor_of(path_self, path_third)

\* C22 witness: the parent of a was taken and is the root, and a is an
\* ancestor of a>b which is an ancestor of a>b>a.
C22_Witness ==
    /\ path_call.op = "parent"
    /\ path_self = <<"a">>
    /\ path_other = <<"a", "b">>
    /\ path_third = <<"a", "b", "a">>
    /\ path_result.some
    /\ path_result.path = << >>
    /\ is_ancestor_of(path_self, path_other)
    /\ is_ancestor_of(path_other, path_third)

\* C23: a.is_parent_of(b) is true exactly when b.parent() is a: b has one
\* more name than a and the names of a are the leading names of b.  It is
\* false for a path and itself, for deeper descendants, and for names that
\* only share the beginning of a string (a and aa).
C23_ParentOfIsParentEquals ==
    path_call.op = "is_parent_of" =>
        /\ path_result.flag <=>
              (SpanPath_parent(path_other).some /\ SpanPath_parent(path_other).path = path_self)
        /\ path_result.flag <=> IsImmediateParentOf(path_self, path_other)
        /\ path_self = path_other => ~path_result.flag
        /\ Len(path_other) > Len(path_self) + 1 => ~path_result.flag

\* C23 witness: a is not the parent of aa>b, whose first name only begins
\* with a.
C23_Witness ==
    /\ path_call.op = "is_parent_of"
    /\ path_self = <<"a">>
    /\ path_other = <<"aa", "b">>
    /\ ~path_result.flag

\* C23 witness of a parent: a is the parent of a>aa.
C23_WitnessParent ==
    /\ path_call.op = "is_parent_of"
    /\ path_self = <<"a">>
    /\ path_other = <<"a", "aa">>
    /\ path_result.flag

\* The longest path that is a prefix of both.
LongestCommonPrefix(p, q) ==
    CHOOSE r \in PrefixesOf(p) \cap PrefixesOf(q) :
        \A r2 \in PrefixesOf(p) \cap PrefixesOf(q) : Len(r2) <= Len(r)

C25_WitnessRoot ==
    /\ path_call.op = "common_ancestor"
    /\ path_self = << >>
    /\ path_other = <<"a", "b">>
    /\ path_result.some
    /\ path_result.path = << >>


(***************************************************************************)
(* AccumulatedTimings::create_timing_tree (timing.rs).                     *)
(* A payload of the intermediate tree is an Option<DirectStats>, a payload *)
(* of the timing tree an Option<DerivedStats>.  The f64 that a division    *)
(* yields is kept as its kind with the two durations it was made from.     *)
(***************************************************************************)
NoneStats == [some |-> FALSE, duration |-> 0, count |-> 0]
SomeStats(stats) == [some |-> TRUE, duration |-> stats.duration, count |-> stats.count]

\* x.as_secs_f64() / y.as_secs_f64() of two durations: NaN for 0/0, infinite
\* for a positive duration over 0, else the quotient of num by den
div_f64(x, y) ==
    [kind |-> IF y # 0 THEN "finite" ELSE IF x = 0 THEN "NaN" ELSE "inf", num |-> x, den |-> y]

NoneRatio == [some |-> FALSE, value |-> div_f64(0, 0)]
SomeRatio(value) == [some |-> TRUE, value |-> value]

NoneDerived ==
    [some |-> FALSE, duration |-> 0, count |-> 0,
     duration_relative_to_parent |-> NoneRatio, duration_relative_to_root |-> NoneRatio]

\* The closure with the payload of the root in the place of the parent's.
derive_stats_parent_is_root(tree, index, search) ==
    LET stats == payload(tree, index)
        root_stats == payload(tree, SpanTreeNode_root(tree, index))
    IN  IF ~stats.some THEN NoneDerived
        ELSE [some |-> TRUE, duration |-> stats.duration, count |-> stats.count,
              duration_relative_to_parent |->
                  IF root_stats.some THEN SomeRatio(div_f64(stats.duration, root_stats.duration))
                  ELSE NoneRatio,
              duration_relative_to_root |->
                  IF root_stats.some THEN SomeRatio(div_f64(stats.duration, root_stats.duration))
                  ELSE NoneRatio]

\* The closure given to transform_payloads
derive_stats(tree, index, search) ==
    LET stats == payload(tree, index)
        parent_node == SpanTreeNode_parent(tree, index, search)
        parent_stats == IF parent_node.some THEN payload(tree, parent_node.index) ELSE NoneStats
        root_stats == payload(tree, SpanTreeNode_root(tree, index))
    IN  IF ~stats.some THEN NoneDerived
        ELSE [some |-> TRUE, duration |-> stats.duration, count |-> stats.count,
              duration_relative_to_parent |->
                  IF parent_stats.some THEN SomeRatio(div_f64(stats.duration, parent_stats.duration))
                  ELSE NoneRatio,
              duration_relative_to_root |->
                  IF root_stats.some THEN SomeRatio(div_f64(stats.duration, root_stats.duration))
                  ELSE NoneRatio]

\* A fold that takes the root path for the common ancestor.
RECURSIVE fold_common_ancestor_root(_, _, _)
fold_common_ancestor_root(keys, position, common) ==
    IF position > Len(keys) THEN common
    ELSE fold_common_ancestor_root(keys, position + 1, [some |-> TRUE, path |-> << >>])

\* A fold that keeps the key it met first.
fold_common_ancestor_first(keys, position, common) ==
    IF position > Len(keys) THEN common ELSE [some |-> TRUE, path |-> keys[position]]

\* keys().fold(None, ...): keys is the order in which the hash map yields
\* its keys
RECURSIVE fold_common_ancestor(_, _, _)
fold_common_ancestor(keys, position, common) ==
    IF position > Len(keys) THEN common
    ELSE fold_common_ancestor(keys, position + 1,
             [some |-> TRUE,
              path |-> IF ~common.some THEN keys[position]
                       ELSE common_ancestor(common.path, keys[position])])

\* while let Some(parent_path) = path.parent()
RECURSIVE insert_parents(_, _, _)
insert_parents(map, path_, common) ==
    LET parent_path == SpanPath_parent(path_)
    IN  IF ~parent_path.some THEN map
        ELSE IF depth(parent_path.path) < depth(common) THEN map
        ELSE insert_parents(IF parent_path.path \in DOMAIN map THEN map
                            ELSE map @@ (parent_path.path :> NoneStats),
                            parent_path.path, common)

\* for mut path in self.span_stats.keys().cloned()
RECURSIVE insert_intermediate_nodes(_, _, _, _)
insert_intermediate_nodes(map, keys, position, common) ==
    IF position > Len(keys) THEN map
    ELSE insert_intermediate_nodes(insert_parents(map, keys[position], common),
                                   keys, position + 1, common)

\* map.into_iter().collect() and sort_by span_names: the keys of a map are
\* distinct, so the place of a path is the number of keys that are less.
sort_by_span_names(map) ==
    [k \in 1..Cardinality(DOMAIN map) |->
        CHOOSE p \in DOMAIN map :
            Cardinality({q \in DOMAIN map : cmp_span_names(q, p) = Less}) = k - 1]

create_timing_tree(self, keys, search) ==
    LET map == [p \in DOMAIN self |-> SomeStats(self[p])]
        common == fold_common_ancestor(keys, 1, [some |-> FALSE, path |-> << >>])
        with_parents == insert_intermediate_nodes(map, keys, 1, common.path)
        completed == IF ~common.some THEN map
                     ELSE IF common.path \in DOMAIN with_parents THEN with_parents
                     ELSE with_parents @@ (common.path :> NoneStats)
        paths_depth_first == sort_by_span_names(completed)
        durations == [k \in 1..Len(paths_depth_first) |-> completed[paths_depth_first[k]]]
        built == try_from_depth_first_ordering(paths_depth_first, durations)
    IN  IF built.status # "ok" THEN [status |-> "panic", tree |-> NoTree]
        ELSE LET new_payloads == [k \in 1..Len(built.tree.tree_depth_first) |->
                                     derive_stats(built.tree, k - 1, search)]
             IN  [status |-> "ok",
                  tree |-> from_paths_and_payloads(built.tree.tree_depth_first, new_payloads)]

\* The maps an AccumulatedTimings can hold, the empty one of new() included:
\* at most MaxKeys paths, each with one of three stats.
TimingInputs ==
    LET paths == {<< >>, <<"a">>, <<"b">>, <<"a", "a">>, <<"a", "b">>, <<"a", "b", "a">>}
        stats == {[duration |-> 0, count |-> 1], [duration |-> 1, count |-> 1],
                  [duration |-> 2, count |-> 3]}
    IN  UNION {[keys -> stats] : keys \in {k \in SUBSET paths : Cardinality(k) <= MaxKeys}}

\* The orders in which a hash map can yield its keys.
KeyOrders(map) ==
    {keys \in [1..Cardinality(DOMAIN map) -> DOMAIN map] :
        \A i, j \in 1..Cardinality(DOMAIN map) : keys[i] = keys[j] => i = j}

InitTiming ==
    /\ InitExtract /\ InitAccumulator /\ IdleSeries /\ IdleTree
    /\ IdlePath /\ IdleStorage /\ IdleDynamecs
    /\ span_stats \in TimingInputs
    /\ timing_tree = [status |-> "none", tree |-> NoTree]

CreateTimingTree ==
    /\ timing_tree.status = "none"
    /\ \E keys \in KeyOrders(span_stats), search \in BinarySearches :
          timing_tree' = create_timing_tree(span_stats, keys, search)
    /\ UNCHANGED span_stats
    /\ UNCHANGED <<xvars, avars, svars, tvars, pvars, vvars, dvars>>

(***************************************************************************)
(* format_timing_tree and write_timing_tree_node (timing.rs).  A body row  *)
(* is the node it is written for, the statistics cells (the payload of the *)
(* node), the pieces of indentation and the name.  The pieces stand for    *)
(* the box-drawing strings of the code: "|   " for the vertical line,      *)
(* "    " for the blank, "|-- " for the tee and "+-- " for the corner.     *)
(***************************************************************************)
\* No child is ever taken for the last one.
is_last_child_never(child_idx, num_children) == FALSE

\* write_timing_tree_node: is_last_child
is_last_child(child_idx, num_children) == child_idx + 1 = num_children

\* write_timing_tree_node: what is pushed to the output after the cells and
\* before the name, from active_stack.split_last()
write_indentation(active_stack) ==
    IF active_stack = << >> THEN << >>
    ELSE LET parent_is_active == active_stack[Len(active_stack)]
             predecessors == SubSeq(active_stack, 1, Len(active_stack) - 1)
         IN  [k \in 1..Len(predecessors) |-> IF predecessors[k] THEN "|   " ELSE "    "]
             \o <<IF parent_is_active THEN "|-- " ELSE "+-- ">>

\* node.path().span_name().unwrap_or("<root span>")
span_name_or_root(span_path) ==
    IF span_path = << >> THEN "<root span>" ELSE span_path[Len(span_path)]

\* write_timing_tree_node: the output and the stack after the node at index
\* and everything below it were written; the loop over the children is
\* write_timing_tree_children, child_idx counting from 0.
RECURSIVE write_timing_tree_node(_, _, _, _)
RECURSIVE write_timing_tree_children(_, _, _, _, _, _)
write_timing_tree_children(output, tree, children, child_idx, num_children, active_stack) ==
    IF child_idx >= Len(children)
      THEN [output |-> output, active_stack |-> active_stack]
      ELSE LET pushed == Append(active_stack, ~is_last_child(child_idx, num_children))
               written == write_timing_tree_node(output, tree, At(children, child_idx), pushed)
               popped == SubSeq(written.active_stack, 1, Len(written.active_stack) - 1)
           IN  write_timing_tree_children(written.output, tree, children, child_idx + 1,
                                          num_children, popped)

write_timing_tree_node(output, tree, index, active_stack) ==
    LET row == [node |-> index,
                stats |-> payload(tree, index),
                indentation |-> write_indentation(active_stack),
                name |-> span_name_or_root(path(tree, index))]
    IN  write_timing_tree_children(Append(output, row), tree, visit_children(tree, index), 0,
                                   count_children(tree, index), active_stack)

\* format_timing_tree: the rows written from the root with an empty stack;
\* format_table then pads the cells of each row and keeps the rows as they
\* are, one line per row, between the header and the closing rule.
format_timing_tree(tree) ==
    LET written == write_timing_tree_node(<< >>, tree, 0, << >>)
    IN  [written |-> TRUE, rows |-> written.output, active_stack |-> written.active_stack]

\* format_timing_tree(&tree) of the tree that was created
FormatTimingTree ==
    /\ timing_tree.status = "ok"
    /\ ~table.written
    /\ table' = format_timing_tree(timing_tree.tree)
    /\ UNCHANGED <<single_shot, cache, entity_factory, app>>
    /\ UNCHANGED <<xvars, avars, svars, tvars, pvars, cvars, vvars>>

NextTiming == CreateTimingTree \/ FormatTimingTree

SpecTiming == InitTiming /\ [][NextTiming]_vars


(***************************************************************************)
(* Properties of create_timing_tree (checked under SpecTiming).            *)
(***************************************************************************)
TimingBuilt == timing_tree.status = "ok"

TimingPathsOf == {timing_tree.tree.tree_depth_first[k] : k \in 1..Len(timing_tree.tree.tree_depth_first)}

\* The payload that the timing tree holds for a path of the tree.
TimingPayloadOf(p) ==
    LET k == CHOOSE k \in 1..Len(timing_tree.tree.tree_depth_first) :
                 timing_tree.tree.tree_depth_first[k] = p
    IN  timing_tree.tree.payloads[k]

TimingRoot == timing_tree.tree.tree_depth_first[1]

\* The longest path that is a prefix of every recorded path.
LongestCommonPrefixOfAll(recorded) ==
    LET common == {r \in UNION {PrefixesOf(p) : p \in recorded} :
                      \A p \in recorded : IsPrefixOf(r, p)}
    IN  CHOOSE r \in common : \A r2 \in common : Len(r2) <= Len(r)

\* C26: the root of the tree built by create_timing_tree is the longest
\* common prefix of all recorded paths; it is in the tree even when no
\* stats were recorded for it, and then its payload is None; the paths of
\* the tree are the recorded paths and their ancestors down to that root,
\* each once.
C26_RootIsTheCommonPrefixOfTheRecordedPaths ==
    TimingBuilt =>
        /\ TimingRoot = LongestCommonPrefixOfAll(DOMAIN span_stats)
        /\ TimingRoot \notin DOMAIN span_stats => ~TimingPayloadOf(TimingRoot).some
        /\ TimingPathsOf =
              {r \in UNION {PrefixesOf(p) : p \in DOMAIN span_stats} : IsPrefixOf(TimingRoot, r)}
        /\ Cardinality(TimingPathsOf) = Len(timing_tree.tree.tree_depth_first)

\* C26 witness: a>a and a>b>a were recorded; the tree has the root a and
\* the node a>b, both without stats.
C26_Witness ==
    /\ TimingBuilt
    /\ DOMAIN span_stats = {<<"a", "a">>, <<"a", "b", "a">>}
    /\ TimingRoot = <<"a">>
    /\ ~TimingPayloadOf(<<"a">>).some
    /\ <<"a", "b">> \in TimingPathsOf

\* C27 (as claimed): for every AccumulatedTimings, whatever set of paths it
\* has recorded, the completed and sorted keys are accepted by the
\* validating constructor, so create_timing_tree never panics.
C27_CreateTimingTreeNeverPanics == timing_tree.status # "panic"

\* C27 (what holds): create_timing_tree does not panic when at least one
\* path was recorded.
C27_HoldsWhenAPathWasRecorded ==
    (DOMAIN span_stats # {} /\ timing_tree.status # "none") => TimingBuilt

\* An Option<f64> that is Some(1.0).
IsOne(ratio) == ratio.some /\ ratio.value.kind = "finite" /\ ratio.value.num = ratio.value.den

\* C28 (as claimed): the duration_relative_to_root of the root is 1.0
\* whenever the root has a direct measurement, for every recorded duration,
\* zero included, and it is None only when the root has no direct
\* measurement.
C28_RootIsOneRelativeToItself ==
    TimingBuilt =>
        IF TimingRoot \in DOMAIN span_stats
          THEN /\ TimingPayloadOf(TimingRoot).some
               /\ IsOne(TimingPayloadOf(TimingRoot).duration_relative_to_root)
          ELSE ~TimingPayloadOf(TimingRoot).some

\* C28 (what holds): the duration_relative_to_root of a measured root is
\* 1.0 when its duration is not zero.
C28_HoldsForNonZeroDurations ==
    (TimingBuilt /\ TimingRoot \in DOMAIN span_stats /\ span_stats[TimingRoot].duration # 0) =>
        IsOne(TimingPayloadOf(TimingRoot).duration_relative_to_root)

\* C29: every recorded path keeps its duration and its count in the tree;
\* its duration_relative_to_parent is its duration divided by that of its
\* parent, and None exactly when it has no parent node or the payload of
\* the parent is None; its duration_relative_to_root is its duration
\* divided by that of the root, and None exactly when the payload of the
\* root is None; every inferred ancestor has the payload None.
C29_DerivedStatsOfTheRecordedPaths ==
    TimingBuilt =>
        \A p \in TimingPathsOf :
            IF p \in DOMAIN span_stats
              THEN LET derived == TimingPayloadOf(p)
                       has_parent == Len(p) > 0 /\ SubSeq(p, 1, Len(p) - 1) \in DOMAIN span_stats
                       has_root == TimingRoot \in DOMAIN span_stats
                   IN  /\ derived.some
                       /\ derived.duration = span_stats[p].duration
                       /\ derived.count = span_stats[p].count
                       /\ derived.duration_relative_to_parent.some <=> has_parent
                       /\ has_parent =>
                             derived.duration_relative_to_parent.value =
                                 div_f64(span_stats[p].duration,
                                         span_stats[SubSeq(p, 1, Len(p) - 1)].duration)
                       /\ derived.duration_relative_to_root.some <=> has_root
                       /\ has_root =>
                             derived.duration_relative_to_root.value =
                                 div_f64(span_stats[p].duration, span_stats[TimingRoot].duration)
              ELSE ~TimingPayloadOf(p).some

\* C29 witness: the root, a and a>b>a were recorded with the durations 2, 1
\* and 2; a has half the duration of its parent, a>b is inferred, and
\* a>b>a has no ratio to its parent and the ratio 1.0 to the root.
C29_Witness ==
    /\ TimingBuilt
    /\ DOMAIN span_stats = {<< >>, <<"a">>, <<"a", "b", "a">>}
    /\ span_stats[<< >>].duration = 2
    /\ span_stats[<<"a">>].duration = 1
    /\ span_stats[<<"a", "b", "a">>].duration = 2
    /\ TimingPayloadOf(<<"a">>).duration_relative_to_parent = SomeRatio(div_f64(1, 2))
    /\ ~TimingPayloadOf(<<"a", "b">>).some
    /\ ~TimingPayloadOf(<<"a", "b", "a">>).duration_relative_to_parent.some
    /\ IsOne(TimingPayloadOf(<<"a", "b", "a">>).duration_relative_to_root)


(***************************************************************************)
(* VersionedVecStorage (storages/versioned_vec_storage.rs) over a          *)
(* VecStorage (storages.rs), with the versions of version_impl.rs.         *)
(* A storage is the record of its fields storage, versions and             *)
(* storage_version; an index is counted from 0.                            *)
(***************************************************************************)
\* Version::next: checked_add(1), which panics only at the largest u64
Version_next(version) == version + 1

\* VecStorage::get_index
VecStorage_get_index(self, id) ==
    IF id \in DOMAIN self.lookup_table
      THEN [some |-> TRUE, index |-> self.lookup_table[id]]
      ELSE [some |-> FALSE, index |-> 0]

\* VecStorage::insert: the storage after the call, and the index returned
VecStorage_insert(self, id, component) ==
    LET len == Len(self.components)
        index == IF id \in DOMAIN self.lookup_table THEN self.lookup_table[id] ELSE len
        lookup_table == IF id \in DOMAIN self.lookup_table THEN self.lookup_table
                        ELSE self.lookup_table @@ (id :> len)
    IN  IF index < Len(self.components)
          THEN [storage |-> [self EXCEPT !.components[index + 1] = component,
                                         !.lookup_table = lookup_table],
                index |-> index]
          ELSE [storage |-> [components |-> Append(self.components, component),
                             entities |-> Append(self.entities, id),
                             lookup_table |-> lookup_table],
                index |-> index]

\* VersionedVecStorage::insert
VersionedVecStorage_insert(self, entity, component) ==
    LET inserted == VecStorage_insert(self.storage, entity, component)
        idx == inserted.index
    IN  [storage |-> inserted.storage,
         versions |-> IF idx < Len(self.versions)
                        THEN [self.versions EXCEPT ![idx + 1] = Version_next(@)]
                        ELSE Append(self.versions, 0),
         storage_version |-> Version_next(self.storage_version)]

\* Every version advanced, not that of the entity only.
get_component_mut_advance_all(self, id) ==
    IF VecStorage_get_index(self.storage, id).some
      THEN [self EXCEPT !.storage_version = Version_next(@),
                        !.versions = [k \in 1..Len(self.versions) |-> Version_next(self.versions[k])]]
      ELSE self

\* VersionedVecStorage::get_component_mut: the storage after the call
get_component_mut(self, id) ==
    LET idx == VecStorage_get_index(self.storage, id)
    IN  IF idx.some
          THEN [self EXCEPT !.storage_version = Version_next(@),
                            !.versions[idx.index + 1] = Version_next(@)]
          ELSE self

\* VersionedVecStorage::components_mut: the storage after the call
components_mut(self) ==
    [self EXCEPT !.storage_version = Version_next(@),
                 !.versions = [k \in 1..Len(self.versions) |-> Version_next(self.versions[k])]]

Entities == {"e1", "e2"}

Components == {"x", "y"}

\* VersionedVecStorage::default()
InitStorage ==
    /\ InitExtract /\ InitAccumulator /\ IdleSeries /\ IdleTree
    /\ IdlePath /\ IdleTimingTree /\ IdleStorage /\ IdleDynamecs

\* The storage that the three variables hold.
TheStorage == [storage |-> storage, versions |-> versions, storage_version |-> storage_version]

\* storage.insert(entity, component)
Insert ==
    /\ storage_version < MaxVersion
    /\ \E entity \in Entities, component \in Components :
          LET after == VersionedVecStorage_insert(TheStorage, entity, component)
          IN  /\ storage' = after.storage
              /\ versions' = after.versions
              /\ storage_version' = after.storage_version
              /\ storage_call' = [op |-> "insert", entity |-> entity, returned |-> TRUE]
    /\ UNCHANGED <<xvars, avars, svars, tvars, pvars, cvars, dvars>>

\* storage.get_component_mut(id), and what the caller writes through the
\* reference it is given
GetComponentMut ==
    /\ storage_version < MaxVersion
    /\ \E id \in Entities, component \in Components :
          LET after == get_component_mut(TheStorage, id)
              idx == VecStorage_get_index(storage, id)
          IN  /\ storage' = IF idx.some
                               THEN [after.storage EXCEPT !.components[idx.index + 1] = component]
                               ELSE after.storage
              /\ versions' = after.versions
              /\ storage_version' = after.storage_version
              /\ storage_call' = [op |-> "get_component_mut", entity |-> id, returned |-> idx.some]
    /\ UNCHANGED <<xvars, avars, svars, tvars, pvars, cvars, dvars>>

\* storage.components_mut(), and what the caller writes to the slice it is
\* given
ComponentsMut ==
    /\ storage_version < MaxVersion
    /\ \E written \in [1..Len(storage.components) -> Components] :
          LET after == components_mut(TheStorage)
          IN  /\ storage' = [after.storage EXCEPT !.components = written]
              /\ versions' = after.versions
              /\ storage_version' = after.storage_version
              /\ storage_call' = [op |-> "components_mut", entity |-> "", returned |-> TRUE]
    /\ UNCHANGED <<xvars, avars, svars, tvars, pvars, cvars, dvars>>

NextStorage == Insert \/ GetComponentMut \/ ComponentsMut

SpecStorage == InitStorage /\ [][NextStorage]_vars


(***************************************************************************)
(* Properties of VersionedVecStorage (checked under SpecStorage).          *)
(***************************************************************************)
\* The entities that have a component.
Present == DOMAIN storage.lookup_table

\* The version of the component of an entity, before and after a step.
VersionOf(e) == versions[storage.lookup_table[e] + 1]
VersionAfterOf(e) == versions'[storage'.lookup_table[e] + 1]

\* C30: get_component_mut(e) for an entity that has a component strictly
\* advances the storage version and the version of e and leaves the version
\* of every other component unchanged, and changes nothing for an entity
\* without a component; components_mut() strictly advances the storage
\* version and the version of every component; insert strictly advances
\* the storage version and, when it replaces a component, the version of
\* that component; no call ever decreases a version.
C30_VersionsAdvance ==
    [][/\ storage_call'.op = "get_component_mut" =>
            IF storage_call'.entity \in Present
              THEN /\ storage_call'.returned
                   /\ storage_version' > storage_version
                   /\ VersionAfterOf(storage_call'.entity) > VersionOf(storage_call'.entity)
                   /\ \A e \in Present \ {storage_call'.entity} : VersionAfterOf(e) = VersionOf(e)
              ELSE /\ ~storage_call'.returned
                   /\ UNCHANGED <<storage, versions, storage_version>>
       /\ storage_call'.op = "components_mut" =>
            /\ storage_version' > storage_version
            /\ \A e \in Present : VersionAfterOf(e) > VersionOf(e)
       /\ storage_call'.op = "insert" =>
            /\ storage_version' > storage_version
            /\ storage_call'.entity \in Present =>
                  VersionAfterOf(storage_call'.entity) > VersionOf(storage_call'.entity)
       /\ storage_version' >= storage_version
       /\ \A e \in Present : e \in DOMAIN storage'.lookup_table /\ VersionAfterOf(e) >= VersionOf(e)
      ]_vars

\* C30 witness: e1 and e2 were inserted and get_component_mut(e1) was
\* called; the version of e1 is 1, that of e2 is 0 and that of the storage
\* is 3.
C30_Witness ==
    /\ storage_call = [op |-> "get_component_mut", entity |-> "e1", returned |-> TRUE]
    /\ Present = {"e1", "e2"}
    /\ VersionOf("e1") = 1
    /\ VersionOf("e2") = 0
    /\ storage_version = 3

\* C30 witness of an entity without a component: get_component_mut(e2) was
\* called on a storage that holds e1 only.
C30_WitnessAbsent ==
    /\ storage_call = [op |-> "get_component_mut", entity |-> "e2", returned |-> FALSE]
    /\ Present = {"e1"}

\* C30 witness of a replacement: insert replaced the component of e1.
C30_WitnessReplaced ==
    /\ storage_call.op = "insert"
    /\ storage_call.entity = "e1"
    /\ Present = {"e1"}
    /\ VersionOf("e1") = 1


(***************************************************************************)
(* SingleShotSystem (adapters.rs).  The wrapped system is any System: a    *)
(* call of its run returns Ok or an error.  system_runs counts the runs of *)
(* the wrapped system, and calls keeps, for every call of                  *)
(* SingleShotSystem::run, the universe it was given, whether the wrapped   *)
(* system was run and what the call returned.                              *)
(***************************************************************************)
\* SingleShotSystem::run; ret is what the wrapped system returns when run
SingleShotSystem_run(self, data, ret) ==
    IF ~self.has_run
      THEN IF ret = "Ok"
             THEN [has_run |-> TRUE,
                   system_runs |-> self.system_runs + 1,
                   calls |-> Append(self.calls, [data |-> data, ran |-> TRUE, returned |-> "Ok"])]
             ELSE [self EXCEPT !.system_runs = @ + 1,
                               !.calls = Append(@, [data |-> data, ran |-> TRUE, returned |-> "Err"])]
      ELSE [self EXCEPT !.calls = Append(@, [data |-> data, ran |-> FALSE, returned |-> "Ok"])]

\* system.run(&mut universe)
SingleShotRun ==
    /\ Len(single_shot.calls) < MaxCalls
    /\ \E data \in {"universe1", "universe2"}, ret \in {"Ok", "Err"} :
          single_shot' = SingleShotSystem_run(single_shot, data, ret)
    /\ UNCHANGED <<cache, entity_factory, app, table>>
    /\ UNCHANGED <<xvars, avars, svars, tvars, pvars, cvars, vvars>>

SpecSingleShot == Init /\ [][SingleShotRun]_vars

\* C31 (as claimed): over any sequence of run calls on a SingleShotSystem
\* the wrapped system is run at most once, and every call after the first
\* returns Ok without running the wrapped system.
C31_WrappedSystemRunsAtMostOnce ==
    /\ single_shot.system_runs <= 1
    /\ \A i \in 2..Len(single_shot.calls) :
          single_shot.calls[i].returned = "Ok" /\ ~single_shot.calls[i].ran

\* C31 (what holds): the wrapped system is not run after a run of it that
\* returned Ok, and every later call returns Ok; has_run tells that there
\* was such a run.
C31_HoldsAfterARunThatReturnedOk ==
    /\ single_shot.has_run <=>
          \E i \in 1..Len(single_shot.calls) :
              single_shot.calls[i].ran /\ single_shot.calls[i].returned = "Ok"
    /\ \A i, j \in 1..Len(single_shot.calls) :
          (i < j /\ single_shot.calls[i].ran /\ single_shot.calls[i].returned = "Ok") =>
              (~single_shot.calls[j].ran /\ single_shot.calls[j].returned = "Ok")


(***************************************************************************)
(* DynamecsApp::run (dynamecs-app/src/lib.rs).  A system is any System: a  *)
(* run of it returns Ok or an error, and it leaves StepIndex and           *)
(* SimulationTime to the loop.  The time is counted in time steps dt.      *)
(* trace keeps what was run: the iteration, the place in the loop, the     *)
(* system, what it returned, and the step index and time afterwards.       *)
(***************************************************************************)
\* The order of the loop with the post-systems before the update.
after_update_last(self, at) ==
    CASE at = "post_initial" -> "pre"
      [] at = "pre" -> "sim"
      [] at = "sim" -> "post"
      [] at = "post" -> "update"
      [] at = "update" -> IF self.write_checkpoints THEN "checkpoint" ELSE "loop"
      [] at = "checkpoint" -> "loop"

\* The place in the loop body that follows a place, in the order of the code
after(self, at) ==
    CASE at = "post_initial" -> "pre"
      [] at = "pre" -> "sim"
      [] at = "sim" -> "update"
      [] at = "update" -> "post"
      [] at = "post" -> IF self.write_checkpoints THEN "checkpoint" ELSE "loop"
      [] at = "checkpoint" -> "loop"

\* The two conditions under which the loop breaks
loop_ends(self) ==
    IF self.max_steps.some THEN self.step_index > self.max_steps.value
    ELSE self.duration.some /\ self.sim_time >= self.duration.value

\* Systems::run_all on a list of `len` systems of which the one at fail_at
\* returns an error (none when fail_at is 0): what is added to the trace
run_all(self, at, len, fail_at) ==
    [i \in 1..(IF fail_at = 0 THEN len ELSE fail_at) |->
        [iteration |-> self.iteration, at |-> at, system |-> i, ok |-> i # fail_at,
         step_index |-> self.step_index, sim_time |-> self.sim_time]]

\* The app is built from the options and run: without a scenario run
\* returns an error; a restored checkpoint gives the state its step index
\* and time.
AppBegin ==
    /\ app.pc = "none"
    /\ \E scenario \in BOOLEAN, write_checkpoints \in BOOLEAN,
          max_steps \in {-1} \cup 0..MaxSteps, duration \in {-1} \cup 0..MaxSteps,
          restored \in 0..1 :
          app' = [app EXCEPT !.pc = IF scenario THEN "loop" ELSE "done",
                             !.result = IF scenario THEN "none" ELSE "Err",
                             !.scenario = scenario,
                             !.write_checkpoints = write_checkpoints,
                             !.max_steps = [some |-> max_steps >= 0, value |-> max_steps],
                             !.duration = [some |-> duration >= 0, value |-> duration],
                             !.step_index = IF scenario THEN restored ELSE 0,
                             !.sim_time = IF scenario THEN restored ELSE 0]
    /\ UNCHANGED <<single_shot, cache, entity_factory, table>>
    /\ UNCHANGED <<xvars, avars, svars, tvars, pvars, cvars, vvars>>

\* The head of the loop: the state is read and the loop ends or goes on
LoopHead ==
    /\ app.pc = "loop"
    /\ app.iteration < MaxSteps + 2
    /\ app' = IF loop_ends(app)
                THEN [app EXCEPT !.pc = "done", !.result = "Ok"]
                ELSE [app EXCEPT !.pc = IF app.step_index = 0 THEN "post_initial" ELSE "pre",
                                 !.iteration = @ + 1,
                                 !.read_step_index = app.step_index]
    /\ UNCHANGED <<single_shot, cache, entity_factory, table>>
    /\ UNCHANGED <<xvars, avars, svars, tvars, pvars, cvars, vvars>>

\* run_all of a list of two systems, or run of the checkpoint system, at a
\* place of the loop body; an error ends the run
RunSystems(at) ==
    /\ app.pc = at
    /\ \E fail_at \in 0..(IF at = "checkpoint" THEN 1 ELSE 2) :
          app' = [app EXCEPT !.trace = @ \o run_all(app, at, IF at = "checkpoint" THEN 1 ELSE 2, fail_at),
                             !.pc = IF fail_at = 0 THEN after(app, at) ELSE "done",
                             !.result = IF fail_at = 0 THEN @ ELSE "Err"]
    /\ UNCHANGED <<single_shot, cache, entity_factory, table>>
    /\ UNCHANGED <<xvars, avars, svars, tvars, pvars, cvars, vvars>>

\* sim_time += dt, and the two set_singular_component
UpdateState ==
    /\ app.pc = "update"
    /\ app' = [app EXCEPT !.sim_time = @ + 1,
                          !.step_index = app.read_step_index + 1,
                          !.pc = after(app, "update"),
                          !.trace = Append(@, [iteration |-> app.iteration, at |-> "update",
                                               system |-> 0, ok |-> TRUE,
                                               step_index |-> app.read_step_index + 1,
                                               sim_time |-> app.sim_time + 1])]
    /\ UNCHANGED <<single_shot, cache, entity_factory, table>>
    /\ UNCHANGED <<xvars, avars, svars, tvars, pvars, cvars, vvars>>

NextApp ==
    \/ AppBegin
    \/ LoopHead
    \/ RunSystems("post_initial")
    \/ RunSystems("pre")
    \/ RunSystems("sim")
    \/ UpdateState
    \/ RunSystems("post")
    \/ RunSystems("checkpoint")

SpecApp == Init /\ [][NextApp]_vars


(***************************************************************************)
(* Properties of DynamecsApp::run (checked under SpecApp).                 *)
(***************************************************************************)
\* The simulation steps taken: the iterations that ran the simulation
\* systems.
SimulationSteps ==
    Cardinality({app.trace[k].iteration : k \in {j \in 1..Len(app.trace) : app.trace[j].at = "sim"}})

\* The step index the state had when the loop was entered.
StartedAt == IF app.trace = << >> THEN app.step_index ELSE app.trace[1].step_index

\* C32 (as claimed): when max_steps = N is configured and the state starts
\* at step index 0, the run takes at most N simulation steps before the
\* loop ends.
C32_AtMostMaxSteps ==
    (app.scenario /\ app.max_steps.some /\ StartedAt = 0) =>
        SimulationSteps <= app.max_steps.value

\* C32 (what holds): with max_steps = N and a start at step index 0 the run
\* takes at most N + 1 simulation steps.
C32_AtMostOneMoreThanMaxSteps ==
    (app.scenario /\ app.max_steps.some /\ StartedAt = 0) =>
        SimulationSteps <= app.max_steps.value + 1

\* What one iteration runs, in order, as <<place, system>>.
IterationOrder(first_step, write_checkpoints) ==
    (IF first_step THEN <<<<"post_initial", 1>>, <<"post_initial", 2>>>> ELSE << >>)
    \o <<<<"pre", 1>>, <<"pre", 2>>, <<"sim", 1>>, <<"sim", 2>>, <<"update", 0>>,
         <<"post", 1>>, <<"post", 2>>>>
    \o (IF write_checkpoints THEN <<<<"checkpoint", 1>>>> ELSE << >>)

\* What the trace holds of one iteration, and the step index at its head.
EventsOf(iteration) == SelectSeq(app.trace, LAMBDA e : e.iteration = iteration)
StepIndexAtHeadOf(iteration) ==
    IF iteration = 1 THEN StartedAt
    ELSE LET before == EventsOf(iteration - 1) IN before[Len(before)].step_index

\* C40: each iteration of the step loop runs, in this order, the
\* pre-systems, the simulation systems, the update that advances the time
\* by dt and the step index by exactly 1, the post-systems, and the
\* checkpoint system when it is enabled; at step index 0 the post-systems
\* run once more, on the initial state, before the pre-systems; the first
\* error of a system ends the run with that error and nothing later is run.
C40_OrderOfTheStepLoop ==
    /\ \A n \in 1..app.iteration :
          LET events == EventsOf(n)
              order == IterationOrder(StepIndexAtHeadOf(n) = 0, app.write_checkpoints)
          IN  /\ Len(events) <= Len(order)
              /\ \A k \in 1..Len(events) : <<events[k].at, events[k].system>> = order[k]
              /\ n < app.iteration => Len(events) = Len(order)
              /\ \A k \in 1..Len(events) :
                    /\ events[k].step_index =
                          StepIndexAtHeadOf(n) + (IF \E j \in 1..k : events[j].at = "update" THEN 1 ELSE 0)
                    /\ k > 1 => events[k].sim_time =
                          events[k - 1].sim_time + (IF events[k].at = "update" THEN 1 ELSE 0)
    /\ \A k \in 1..Len(app.trace) :
          /\ app.trace[k].iteration \in 1..app.iteration
          /\ k < Len(app.trace) => app.trace[k].iteration <= app.trace[k + 1].iteration
          /\ ~app.trace[k].ok => (k = Len(app.trace) /\ app.pc = "done" /\ app.result = "Err")
    /\ (app.scenario /\ app.result = "Err") => ~app.trace[Len(app.trace)].ok

\* C40 witness: a run with checkpoints that started at step index 0 made a
\* whole iteration and, in the second, the first simulation system
\* returned an error.
C40_Witness ==
    /\ app.pc = "done"
    /\ app.result = "Err"
    /\ app.write_checkpoints
    /\ StartedAt = 0
    /\ app.iteration = 2
    /\ Len(EventsOf(1)) = 10
    /\ app.trace[Len(app.trace)].at = "sim"
    /\ app.trace[Len(app.trace)].system = 1

\* C40 witness of a run that ended without an error after iterations from
\* step index 0.
C40_WitnessEnded ==
    /\ app.pc = "done"
    /\ app.result = "Ok"
    /\ StartedAt = 0
    /\ app.iteration = 2
    /\ ~app.write_checkpoints


(***************************************************************************)
(* VersionedEntityCache (cache.rs).  value_fn is any closure: when called  *)
(* it returns a value or an error.  call keeps the arguments of the last   *)
(* call, whether value_fn was called, what it was passed and what the call *)
(* returned (value is what value_fn returned, when it returned one).       *)
(***************************************************************************)
\* value_fn called even when the cached version is the one given.
update_if_outdated_always(self, entity, version, fn_ok, fn_value) ==
    LET had == entity \in DOMAIN self.map
        removed == [e \in DOMAIN self.map \ {entity} |-> self.map[e]]
        passed == IF had THEN [some |-> TRUE, version |-> self.map[entity].version,
                               value |-> self.map[entity].value]
                  ELSE [some |-> FALSE, version |-> 0, value |-> ""]
    IN  [map |-> IF fn_ok THEN removed @@ (entity :> [version |-> version, value |-> fn_value])
                 ELSE removed,
         call |-> [op |-> "update_if_outdated", entity |-> entity, version |-> version,
                   called |-> TRUE, passed |-> passed,
                   value |-> IF fn_ok THEN fn_value ELSE "",
                   returned |-> IF fn_ok THEN "Ok" ELSE "Err"]]

\* update_if_outdated: the entry is removed, and inserted again as it was
\* or with what value_fn returns; an error of value_fn returns before the
\* insertion
update_if_outdated(self, entity, version, fn_ok, fn_value) ==
    LET had == entity \in DOMAIN self.map
        removed == [e \in DOMAIN self.map \ {entity} |-> self.map[e]]
        called == ~had \/ version # self.map[entity].version
        passed == IF had /\ called
                    THEN [some |-> TRUE, version |-> self.map[entity].version,
                          value |-> self.map[entity].value]
                    ELSE [some |-> FALSE, version |-> 0, value |-> ""]
    IN  [map |-> IF ~called THEN removed @@ (entity :> [version |-> version, value |-> self.map[entity].value])
                 ELSE IF fn_ok THEN removed @@ (entity :> [version |-> version, value |-> fn_value])
                 ELSE removed,
         call |-> [op |-> "update_if_outdated", entity |-> entity, version |-> version,
                   called |-> called, passed |-> passed,
                   value |-> IF called /\ fn_ok THEN fn_value ELSE "",
                   returned |-> IF called /\ ~fn_ok THEN "Err" ELSE "Ok"]]

\* get_cached
get_cached(self, entity) ==
    IF entity \in DOMAIN self.map THEN [some |-> TRUE, value |-> self.map[entity].value]
    ELSE [some |-> FALSE, value |-> ""]

\* cache.update_if_outdated(entity, version, value_fn)
UpdateIfOutdated ==
    /\ \E entity \in {"e1", "e2"}, version \in 0..1, fn_ok \in BOOLEAN, fn_value \in {"x", "y"} :
          cache' = update_if_outdated(cache, entity, version, fn_ok, fn_value)
    /\ UNCHANGED <<single_shot, entity_factory, app, table>>
    /\ UNCHANGED <<xvars, avars, svars, tvars, pvars, cvars, vvars>>

SpecCache == Init /\ [][UpdateIfOutdated]_vars

\* C33: update_if_outdated(entity, version, value_fn) calls value_fn exactly
\* when the entity has no cached entry or its cached version differs from
\* version, and passes it the old version and value when they exist; after
\* a call that returned Ok the stored version of the entity is version and
\* get_cached returns the value that was kept (versions equal) or the value
\* that value_fn returned; the entries of other entities are unchanged.
C33_UpdateIfOutdated ==
    [][cache'.call.op = "update_if_outdated" =>
         LET call == cache'.call
             had == call.entity \in DOMAIN cache.map
             outdated == ~had \/ cache.map[call.entity].version # call.version
         IN  /\ call.called <=> outdated
             /\ call.called =>
                   call.passed = IF had THEN [some |-> TRUE,
                                              version |-> cache.map[call.entity].version,
                                              value |-> cache.map[call.entity].value]
                                 ELSE [some |-> FALSE, version |-> 0, value |-> ""]
             /\ ~call.called => call.returned = "Ok"
             /\ call.returned = "Ok" =>
                   /\ call.entity \in DOMAIN cache'.map
                   /\ cache'.map[call.entity].version = call.version
                   /\ get_cached(cache', call.entity).some
                   /\ get_cached(cache', call.entity) =
                         IF outdated THEN [some |-> TRUE, value |-> call.value]
                         ELSE get_cached(cache, call.entity)
             /\ \A other \in (DOMAIN cache.map \cup DOMAIN cache'.map) \ {call.entity} :
                   /\ other \in DOMAIN cache.map
                   /\ other \in DOMAIN cache'.map
                   /\ cache'.map[other] = cache.map[other]
      ]_vars

\* C33 witness: e1 was cached with version 0 and value x and is updated to
\* version 1; value_fn was passed the old version and value and returned y,
\* which get_cached now returns; e2 has an entry too.
C33_Witness ==
    /\ cache.call.op = "update_if_outdated"
    /\ cache.call.entity = "e1"
    /\ cache.call.version = 1
    /\ cache.call.called
    /\ cache.call.passed = [some |-> TRUE, version |-> 0, value |-> "x"]
    /\ cache.call.returned = "Ok"
    /\ get_cached(cache, "e1") = [some |-> TRUE, value |-> "y"]
    /\ get_cached(cache, "e2").some

\* C33 witness of a call with the cached version: value_fn was not called.
C33_WitnessKept ==
    /\ cache.call.op = "update_if_outdated"
    /\ ~cache.call.called
    /\ cache.call.returned = "Ok"
    /\ cache.call.entity \in DOMAIN cache.map


(***************************************************************************)
(* Properties of Record::create_span_path (checked under Spec, on the      *)
(* records the scan takes).                                                *)
(***************************************************************************)
\* The enter records that match an exit record: the same span name, target
\* and thread, and a span list that is the one of the exit record followed
\* by the span itself.
MatchingEnters(exit_record) ==
    { e \in Records :
        /\ e.kind = SpanEnter
        /\ e.span.present
        /\ e.span.name = exit_record.span.name
        /\ e.target = exit_record.target
        /\ e.thread_id = exit_record.thread_id
        /\ e.spans = Append(exit_record.spans, exit_record.span.name) }

\* C35: create_span_path of a span-exit record is its span list followed by
\* the name of the span being exited, and of an enter or event record its
\* span list unchanged; a span-exit record without a span is an error.  An
\* exit record and its matching enter record have equal paths, and the exit
\* that a scan loop accepts closes, in that loop's accumulator, the very key
\* the enter opened.
C35_CreateSpanPath ==
    [][Took =>
         LET record == rec'
             span_path == create_span_path(record)
             accepted == result'.status # "err" /\ record.span.present
                         /\ record.kind = SpanExit
             key == Append(record.spans, record.span.name)
         IN  /\ record.kind = SpanExit /\ record.span.present =>
                   /\ span_path = [ok |-> TRUE, path |-> key]
                   /\ \A e \in MatchingEnters(record) :
                         create_span_path(e) = [ok |-> TRUE, path |-> span_path.path]
             /\ record.kind \in {SpanEnter, Event} =>
                   span_path = [ok |-> TRUE, path |-> record.spans]
             /\ record.kind = SpanExit /\ ~record.span.present => ~span_path.ok
             /\ accepted /\ pc = "InStep" /\ on_step_thread(record, step_new_record) =>
                   /\ key \in DOMAIN accumulator.enter_timestamps
                   /\ key \notin DOMAIN accumulator'.enter_timestamps
                   /\ key \in DOMAIN accumulator'.completed_statistics
             /\ accepted /\ pc = "InRun" /\ on_run_thread(record, run_new_record) =>
                   /\ key \in DOMAIN intransient_accumulator.enter_timestamps
                   /\ key \notin DOMAIN intransient_accumulator'.enter_timestamps
                   /\ key \in DOMAIN intransient_accumulator'.completed_statistics
      ]_vars

\* C35 witness: the exit record of the step (span list run, span step) was
\* taken in the step and closed the key run>step that the enter record of
\* the step (span list run, step) had opened.
C35_Witness ==
    /\ rec.kind = SpanExit
    /\ rec.span.present
    /\ rec.span.name = "step"
    /\ rec.spans = <<"run">>
    /\ step_new_record.spans = <<"run", "step">>
    /\ step_new_record \in MatchingEnters(rec)
    /\ <<"run", "step">> \in DOMAIN accumulator.completed_statistics
    /\ pc = "InRun"
    /\ result.status = "none"

\* C35 witness of the error: a span-exit record without a span was taken.
C35_WitnessNoSpan ==
    /\ rec.kind = SpanExit
    /\ ~rec.span.present
    /\ ~create_span_path(rec).ok


(***************************************************************************)
(* The end of the scan (checked under Spec).                               *)
(***************************************************************************)
\* The exit record of the run span that was entered: a span-exit named run
\* with target dynamecs_app on the run's thread, at the run's path.
IsExitOfTheRunSpan(record) ==
    /\ run_new_record # NoRecord
    /\ record.kind = SpanExit
    /\ record.span.present
    /\ record.span.name = "run"
    /\ record.target = DynamecsTarget
    /\ record.thread_id = run_new_record.thread_id
    /\ RecordPath(record) = RecordPath(run_new_record)

TimingNodes == 0..(Len(timing_tree.tree.tree_depth_first) - 1)
TimingPathAt(node) == timing_tree.tree.tree_depth_first[node + 1]

\* The node is the last, in tree order, of the nodes with the same parent path.
IsLastChildOfItsParent(node) ==
    \A other \in TimingNodes :
        /\ other > node
        /\ Len(TimingPathAt(other)) = Len(TimingPathAt(node))
        => SubSeq(TimingPathAt(other), 1, Len(TimingPathAt(other)) - 1)
           # SubSeq(TimingPathAt(node), 1, Len(TimingPathAt(node)) - 1)

\* The node of the tree whose path is the first n names of the path of node.
AncestorAtDepth(node, n) ==
    CHOOSE a \in TimingNodes : TimingPathAt(a) = SubSeq(TimingPathAt(node), 1, n)

\* C36: format_timing_tree writes exactly one body row per node of the tree,
\* in the depth-first order of the tree.  The row of the root has no
\* indentation; the row of any other node, k levels below the root, has k
\* pieces: the last is the corner when the node is the last child of its
\* parent and the tee otherwise, and the piece of each ancestor level below
\* the root is the vertical line exactly when that ancestor is not the last
\* child of its own parent.  The stack of flags is empty when rendering ends.
C36_RowsAndConnectorsOfTheTimingTree ==
    table.written =>
        LET root_depth == Len(TimingPathAt(0))
        IN  /\ Len(table.rows) = Len(timing_tree.tree.tree_depth_first)
            /\ \A k \in 1..Len(table.rows) :
                  LET row == table.rows[k]
                      node == k - 1
                      levels == Len(TimingPathAt(node)) - root_depth
                  IN  /\ row.node = node
                      /\ row.stats = timing_tree.tree.payloads[k]
                      /\ row.name = IF TimingPathAt(node) = << >> THEN "<root span>"
                                    ELSE TimingPathAt(node)[Len(TimingPathAt(node))]
                      /\ Len(row.indentation) = levels
                      /\ levels > 0 =>
                            /\ row.indentation[levels] =
                                  IF IsLastChildOfItsParent(node) THEN "+-- " ELSE "|-- "
                            /\ \A level \in 1..(levels - 1) :
                                  row.indentation[level] =
                                     IF IsLastChildOfItsParent(AncestorAtDepth(node, root_depth + level))
                                       THEN "    " ELSE "|   "
            /\ table.active_stack = << >>

\* C36 witness: a table was written in which a row has a vertical line and
\* then a corner (a last child under a parent that is not a last child), a
\* row has a blank for an ancestor that is a last child, and a row has a tee.
C36_Witness ==
    /\ table.written
    /\ \E k \in 1..Len(table.rows) : table.rows[k].indentation = <<"|   ", "+-- ">>
    /\ \E k \in 1..Len(table.rows) : table.rows[k].indentation = <<"|   ", "    ", "+-- ">>
    /\ \E k \in 1..Len(table.rows) : table.rows[k].indentation = <<"|-- ">>
    /\ table.rows[1].name = "<root span>"


\* C37: create_timing_tree does not depend on the order in which the hash
\* map yields its keys: whatever tree was created (or whatever panic was
\* raised) from span_stats, every other order of the keys, in the fold of the
\* common ancestor and in the insertion of the ancestors, gives the same
\* root, the same sequence of paths and the same payloads.
C37_CreateTimingTreeIgnoresTheKeyOrder ==
    timing_tree.status # "none" =>
        \A keys \in KeyOrders(span_stats), search \in BinarySearches :
            create_timing_tree(span_stats, keys, search) = timing_tree

\* C37 witness: a tree was created from three recorded paths, which a hash
\* map can yield in six orders; the root and an ancestor were inserted and
\* have no statistics of their own.
C37_Witness ==
    /\ TimingBuilt
    /\ Cardinality(DOMAIN span_stats) = 3
    /\ Cardinality(KeyOrders(span_stats)) = 6
    /\ TimingRoot \notin DOMAIN span_stats
    /\ Len(timing_tree.tree.tree_depth_first) = 6


(***************************************************************************)
(* VecStorage (storages.rs): insert, remove_entity and clear on the        *)
(* storage held by the variable storage.  The lists hold at most MaxStored *)
(* components.                                                             *)
(***************************************************************************)
MaxStored == 3

\* Vec::remove(index): the elements after index move one place down
Vec_remove(vec, index) ==
    [k \in 1..(Len(vec) - 1) |-> IF k <= index THEN vec[k] ELSE vec[k + 1]]

\* VecStorage::remove_entity: the storage after the call and what it
\* returned.  Vec::remove panics for an index that is not in the list, after
\* the entry of the lookup table was removed.
VecStorage_remove_entity(self, id) ==
    IF id \in DOMAIN self.lookup_table
      THEN LET index == self.lookup_table[id]
               removed == [self EXCEPT !.lookup_table = MapRemove(self.lookup_table, id)]
           IN  IF index >= Len(self.entities)
                 THEN [storage |-> removed, returned |-> FALSE, panic |-> TRUE]
                 ELSE [storage |-> [removed EXCEPT !.entities = Vec_remove(self.entities, index),
                                                   !.components = Vec_remove(self.components, index)],
                       returned |-> TRUE, panic |-> FALSE]
      ELSE [storage |-> self, returned |-> FALSE, panic |-> FALSE]

\* VecStorage::clear
VecStorage_clear(self) ==
    [components |-> << >>, entities |-> << >>, lookup_table |-> << >>]

\* VecStorage::get_component: components.get(get_index(id)?)
VecStorage_get_component(self, id) ==
    LET idx == VecStorage_get_index(self, id)
    IN  IF idx.some /\ idx.index < Len(self.components)
          THEN [some |-> TRUE, component |-> self.components[idx.index + 1]]
          ELSE [some |-> FALSE, component |-> ""]

\* storage.insert(id, component)
VecInsert ==
    /\ Len(storage.components) < MaxStored
    /\ \E id \in Entities, component \in Components :
          /\ storage' = VecStorage_insert(storage, id, component).storage
          /\ storage_call' = [op |-> "insert", entity |-> id, returned |-> TRUE]
    /\ UNCHANGED <<versions, storage_version>>
    /\ UNCHANGED <<xvars, avars, svars, tvars, pvars, cvars, dvars>>

\* storage.remove_entity(&id)
VecRemoveEntity ==
    /\ \E id \in Entities :
          LET result_ == VecStorage_remove_entity(storage, id)
          IN  /\ storage' = result_.storage
              /\ storage_call' = [op |-> IF result_.panic THEN "remove_entity panicked"
                                         ELSE "remove_entity",
                                  entity |-> id, returned |-> result_.returned]
    /\ UNCHANGED <<versions, storage_version>>
    /\ UNCHANGED <<xvars, avars, svars, tvars, pvars, cvars, dvars>>

\* storage.clear()
VecClear ==
    /\ storage' = VecStorage_clear(storage)
    /\ storage_call' = [op |-> "clear", entity |-> "", returned |-> TRUE]
    /\ UNCHANGED <<versions, storage_version>>
    /\ UNCHANGED <<xvars, avars, svars, tvars, pvars, cvars, dvars>>

NextVec == VecInsert \/ VecRemoveEntity \/ VecClear

SpecVec == InitStorage /\ [][NextVec]_vars

\* C38: after any sequence of insert, remove_entity and clear the lookup
\* table maps exactly the stored entities, each to the index at which it
\* sits in the list of entities; no index is out of bounds and no index is
\* shared by two entities, so that get_component finds a component for every
\* stored entity and a join is handed a different component for each.
C38_LookupTableIsConsistent ==
    /\ Len(storage.components) = Len(storage.entities)
    /\ DOMAIN storage.lookup_table = {storage.entities[k] : k \in 1..Len(storage.entities)}
    /\ \A id \in DOMAIN storage.lookup_table :
          /\ storage.lookup_table[id] < Len(storage.entities)
          /\ storage.entities[storage.lookup_table[id] + 1] = id
          /\ VecStorage_get_component(storage, id).some
    /\ \A id, other \in DOMAIN storage.lookup_table :
          storage.lookup_table[id] = storage.lookup_table[other] => id = other


(***************************************************************************)
(* EntityFactory (entity.rs) of a Universe (universe.rs): new_entity, and  *)
(* the serialization of the universe with the factory in it.  A universe   *)
(* hands out at most MaxCalls entities.                                    *)
(***************************************************************************)
\* A factory that reads the counter without advancing it.
EntityFactory_new_entity_load(next_entity) ==
    [entity |-> next_entity, next_entity |-> next_entity]

\* EntityFactory::new_entity: Entity(next_entity.fetch_add(1, SeqCst)), the
\* entity returned and the counter after the call.  The counter is a u64; it
\* stays far below 2^64 here.
EntityFactory_new_entity(next_entity) ==
    [entity |-> next_entity, next_entity |-> next_entity + 1]

\* Serialize of the AtomicU64: the number as decimal digits
RECURSIVE serialize_u64(_)
serialize_u64(value) ==
    IF value < 10 THEN <<value>> ELSE Append(serialize_u64(value \div 10), value % 10)

\* Deserialize of the AtomicU64: the number the decimal digits denote
RECURSIVE deserialize_u64(_)
deserialize_u64(text) ==
    IF Len(text) = 0 THEN 0
    ELSE 10 * deserialize_u64(SubSeq(text, 1, Len(text) - 1)) + text[Len(text)]

\* universe.new_entity()
NewEntity ==
    /\ entity_factory.next_entity < MaxCalls
    /\ LET made == EntityFactory_new_entity(entity_factory.next_entity)
       IN  entity_factory' = [entity_factory EXCEPT !.next_entity = made.next_entity,
                                                    !.handed_out = Append(@, made.entity)]
    /\ UNCHANGED <<single_shot, cache, app, table>>
    /\ UNCHANGED <<xvars, avars, svars, tvars, pvars, cvars, vvars>>

\* serde_json::to_string(&universe): the factory is written with the value
\* its counter has; handed_out notes how many entities had been handed out.
SerializeUniverse ==
    /\ entity_factory' = [entity_factory EXCEPT
           !.json = [some |-> TRUE, text |-> serialize_u64(entity_factory.next_entity),
                     handed_out |-> Len(entity_factory.handed_out)]]
    /\ UNCHANGED <<single_shot, cache, app, table>>
    /\ UNCHANGED <<xvars, avars, svars, tvars, pvars, cvars, vvars>>

\* serde_json::from_str(&json): a universe with the factory that was written
DeserializeUniverse ==
    /\ entity_factory.json.some
    /\ entity_factory' = [entity_factory EXCEPT
           !.restored = [some |-> TRUE, next_entity |-> deserialize_u64(entity_factory.json.text),
                         handed_out |-> << >>, from |-> entity_factory.json.handed_out]]
    /\ UNCHANGED <<single_shot, cache, app, table>>
    /\ UNCHANGED <<xvars, avars, svars, tvars, pvars, cvars, vvars>>

\* deserialized_universe.new_entity()
NewEntityOfRestored ==
    /\ entity_factory.restored.some
    /\ entity_factory.restored.next_entity < MaxCalls
    /\ LET made == EntityFactory_new_entity(entity_factory.restored.next_entity)
       IN  entity_factory' = [entity_factory EXCEPT
               !.restored.next_entity = made.next_entity,
               !.restored.handed_out = Append(@, made.entity)]
    /\ UNCHANGED <<single_shot, cache, app, table>>
    /\ UNCHANGED <<xvars, avars, svars, tvars, pvars, cvars, vvars>>

NextUniverse == NewEntity \/ SerializeUniverse \/ DeserializeUniverse \/ NewEntityOfRestored

SpecUniverse == Init /\ [][NextUniverse]_vars

\* The elements of a sequence differ pairwise.
PairwiseDistinct(entities) ==
    \A i, j \in 1..Len(entities) : entities[i] = entities[j] => i = j

\* C39: the entities a universe has returned from new_entity differ pairwise,
\* and so do those of a restored universe; a universe restored from a
\* serialized universe returns no entity that the original had handed out
\* when it was serialized.
C39_EntitiesAreDistinct ==
    /\ PairwiseDistinct(entity_factory.handed_out)
    /\ PairwiseDistinct(entity_factory.restored.handed_out)
    /\ entity_factory.restored.some =>
          \A i \in 1..Len(entity_factory.restored.handed_out),
             j \in 1..entity_factory.restored.from :
                entity_factory.restored.handed_out[i] # entity_factory.handed_out[j]

\* C39 witness: the original had handed out two entities when it was
\* serialized, and the universe restored from that has handed out two more.
C39_Witness ==
    /\ entity_factory.restored.some
    /\ entity_factory.restored.from = 2
    /\ Len(entity_factory.restored.handed_out) = 2
    /\ Len(entity_factory.handed_out) >= 2
====
